---------------------------- MODULE Spec2Model ----------------------------
(***************************************************************************)
(* A model of parts of the PyJHora "Vedic Astrology V4" sources:           *)
(*   - WorkflowEngine.execute_workflow (workflow engine, 7fc022f6_...py),  *)
(*   - KnowledgeBase.apply_rule (rule matcher, b0e7685b_...py),            *)
(*   - PredictionEngine.calculate_vimshottari_dasha                        *)
(*     (period calculator, src/jhora/vedic_v4_predictor.py),               *)
(*   - PredictionEngine.calculate_dasha and its helpers (b0e7685b_...py),  *)
(*   - SynastryAnalyzer (kuta milan, vpnadijay_...py) and the manager's    *)
(*     _check_* functions (8a7577ac_...py),                                *)
(*   - KnowledgeBase.load_json_ruleset (b0e7685b_...py) and                *)
(*     KnowledgeBaseIntegrator.load_all_knowledge_bases / search_rules     *)
(*     (7fc022f6_...py),                                                   *)
(*   - get_house_cusp_sign (vpnadijay_...py) with _get_house_lord and      *)
(*     _is_planet_in_house, and PredictionEngine.detect_mangal_dosha,      *)
(*   - UnifiedAstrologyEngine (7fc022f6_...py),                            *)
(*   - VedicAstrologySystemV5 (34acd345_...py).                            *)
(* Each part has its own specification over the shared variable list; the  *)
(* variables of the other parts stay at their initial values.              *)
(***************************************************************************)
EXTENDS Integers, Sequences, FiniteSets, TLC

VARIABLES
    state,          \* WorkflowEngine.state
    execution_log,  \* WorkflowEngine.execution_log
    workflows,      \* WorkflowEngine.workflows: name -> list of step names
    runs,           \* one record per caller thread: its execute_workflow frame
    calls,          \* number of execute_workflow calls made so far
    latest,         \* the thread whose call was entered most recently
    rule,           \* apply_rule: the rule argument
    chart_data,     \* apply_rule: the chart_data argument
    outcome,        \* apply_rule: what the call produced
    moon_nakshatra, \* calculate_vimshottari_dasha: the moon_nakshatra argument
    days_lived,     \* calculate_vimshottari_dasha: (today - birth).days
    dasha,          \* calculate_vimshottari_dasha: what the call produced
    birth_date,     \* the birth instant: its time of day, in quarter days
    timeline,       \* _generate_dasha_timeline: what the call produced
    dasha_chart,    \* calculate_dasha: the chart argument
    dasha_report,   \* calculate_dasha: what the call produced
    chart_a,        \* SynastryAnalyzer.chart_a
    chart_b,        \* SynastryAnalyzer.chart_b
    compat,         \* calculate_total_compatibility: the CompatibilityResult
    kuta_checks,    \* AstrologySystemV4Manager._check_*: what the calls gave
    batch,          \* the list of records an ingested file holds
    batch_source,   \* the source name (file name) of the ingestion
    kb,             \* two KnowledgeBase stores
    kbi,            \* two KnowledgeBaseIntegrator stores
    found,          \* search_rules: the arguments and what the call returned
    asc_sign,       \* get_house_cusp_sign: the asc_sign argument
    house_num,      \* get_house_cusp_sign: the house_num argument
    cusp,           \* what the three house-to-sign derivations returned
    mars_chart,     \* detect_mangal_dosha: the chart_data argument
    mangal,         \* detect_mangal_dosha: what the call returned
    is_ready,       \* UnifiedAstrologyEngine.is_ready
    engine_ret,     \* what the last call of the unified engine returned
    charts,         \* VedicAstrologySystemV5.charts
    analyses,       \* VedicAstrologySystemV5.analyses
    v5_ret          \* what the last call of the V5 system returned

vars == <<state, execution_log, workflows, runs, calls, latest,
          rule, chart_data, outcome, moon_nakshatra, days_lived, dasha,
          birth_date, timeline, dasha_chart, dasha_report,
          chart_a, chart_b, compat, kuta_checks,
          batch, batch_source, kb, kbi, found,
          asc_sign, house_num, cusp, mars_chart, mangal,
          is_ready, engine_ret, charts, analyses, v5_ret>>

wfVars == <<state, execution_log, workflows, runs, calls, latest>>
kbVars == <<rule, chart_data, outcome>>
dashaVars == <<moon_nakshatra, days_lived, dasha, birth_date, timeline>>
reportVars == <<dasha_chart, dasha_report>>
synVars == <<chart_a, chart_b, compat, kuta_checks>>
storeVars == <<batch, batch_source, kb, kbi, found>>
houseVars == <<asc_sign, house_num, cusp, mars_chart, mangal>>
engineVars == <<is_ready, engine_ret>>
systemVars == <<charts, analyses, v5_ret>>

Min(a, b) == IF a <= b THEN a ELSE b

(***************************************************************************)
(*                    KNOWLEDGE BASE: apply_rule                           *)
(***************************************************************************)

\* Chart values are numbers 1..MaxVal, None (the field is absent:
\* chart_data.get(key) gives None) or a non-numeric string.
MaxVal == 5

Num(n) == [t |-> "num", n |-> n]
None == [t |-> "none", n |-> 0]
Str == [t |-> "str", n |-> 0]
IsNumeric(v) == v.t = "num"

\* The chart fields the rules of the model name.
Fields == {"moon_house", "lagna_sign"}
ChartValues == {Num(n) : n \in 1..MaxVal} \cup {None, Str}
Charts == [Fields -> ChartValues]

\* The numbers the conditions of the model mention.
CondNums == {1, 4}
CondLists == {<<>>, <<1>>, <<4>>, <<1, 4>>}

\* One entry of rule['conditions']: key -> value, where value is a scalar, a
\* list, or a dict that may hold 'min' and 'max'.
Equals(key, v) ==
    [key |-> key, kind |-> "scalar", value |-> v, list |-> <<>>,
     has_min |-> FALSE, min |-> 0, has_max |-> FALSE, max |-> 0]
OneOf(key, l) ==
    [key |-> key, kind |-> "list", value |-> 0, list |-> l,
     has_min |-> FALSE, min |-> 0, has_max |-> FALSE, max |-> 0]
Range(key, has_min, min, has_max, max) ==
    [key |-> key, kind |-> "dict", value |-> 0, list |-> <<>>,
     has_min |-> has_min, min |-> min, has_max |-> has_max, max |-> max]

ConditionsOn(key) ==
    {Equals(key, v) : v \in CondNums}
    \cup {OneOf(key, l) : l \in CondLists}
    \cup {Range(key, TRUE, a, TRUE, b) : a \in CondNums, b \in CondNums}
    \cup {Range(key, TRUE, a, FALSE, 0) : a \in CondNums}
    \cup {Range(key, FALSE, 0, TRUE, b) : b \in CondNums}
    \cup {Range(key, FALSE, 0, FALSE, 0)}
AllConditions == UNION {ConditionsOn(key) : key \in Fields}

\* rule['conditions'] is a dict: its keys are distinct and keep their order.
ConditionLists ==
    {<<>>} \cup {<<c>> : c \in AllConditions}
    \cup {p \in AllConditions \X AllConditions : p[1].key # p[2].key}

\* The rule argument: a dict with its conditions, or a falsy value (None, {}).
NoRule == [present |-> FALSE, conditions |-> <<>>]
Rules == {NoRule} \cup {[present |-> TRUE, conditions |-> cs] : cs \in ConditionLists}

\* chart_value in value
InList(chart_value, l) == \E i \in 1..Len(l) : chart_value = Num(l[i])

\* min_val <= chart_value <= max_val on a numeric chart value, a missing
\* bound being -inf or +inf.
InRangeExclusiveMax(c, n) ==
    /\ c.has_min => c.min <= n
    /\ c.has_max => n < c.max
InRange(c, n) ==
    /\ c.has_min => c.min <= n
    /\ c.has_max => n <= c.max

\* The comparison of line 173 raises TypeError on None and on a string.
ComparisonRaises(chart_value) == ~IsNumeric(chart_value)

\* The loop of lines 163-175 from condition i on, with the value of applies
\* so far.  `applies and (...)` does not evaluate its right side when
\* applies is already False.
RECURSIVE CheckConditions(_, _, _, _)
CheckConditions(conds, chart, i, applies) ==
    IF i > Len(conds) THEN [raised |-> FALSE, applies |-> applies]
    ELSE LET c == conds[i]
             chart_value == chart[c.key]
         IN CASE c.kind = "list" ->
                   CheckConditions(conds, chart, i + 1,
                                   applies /\ InList(chart_value, c.list))
              [] c.kind = "dict" ->
                   IF c.has_min \/ c.has_max
                   THEN IF applies /\ ComparisonRaises(chart_value)
                        THEN [raised |-> TRUE, applies |-> FALSE]
                        ELSE CheckConditions(conds, chart, i + 1,
                                             applies /\ InRange(c, chart_value.n))
                   ELSE CheckConditions(conds, chart, i + 1, applies)
              [] OTHER ->
                   CheckConditions(conds, chart, i + 1,
                                   applies /\ chart_value = Num(c.value))

\* What a call of apply_rule produced: a raised TypeError, or the returned
\* (applies, strength) with the default strength 1.0 in tenths.
NotApplied == [called |-> FALSE, raised |-> FALSE, applies |-> FALSE, strength |-> 0]
Returned(applies) ==
    [called |-> TRUE, raised |-> FALSE, applies |-> applies,
     strength |-> IF applies THEN 10 ELSE 0]
Raised == [called |-> TRUE, raised |-> TRUE, applies |-> FALSE, strength |-> 0]

\* KnowledgeBase.apply_rule(rule, chart_data)
apply_rule(r, chart) ==
    IF ~r.present THEN Returned(FALSE)
    ELSE LET res == CheckConditions(r.conditions, chart, 1, TRUE)
         IN IF res.raised THEN Raised ELSE Returned(res.applies)

RuleInit ==
    /\ rule \in Rules
    /\ chart_data \in Charts
    /\ outcome = NotApplied

ApplyRule ==
    /\ ~outcome.called
    /\ outcome' = apply_rule(rule, chart_data)
    /\ UNCHANGED <<rule, chart_data, wfVars, dashaVars, reportVars, synVars, storeVars,
                 houseVars, engineVars, systemVars>>

RuleNext == ApplyRule

(***************************************************************************)
(*          PREDICTION ENGINE: calculate_vimshottari_dasha                 *)
(***************************************************************************)

\* The inputs: moon_nakshatra in 1..NumNakshatras, and a days_lived within
\* DayWindow days of a whole number of years 0..MaxYears after birth.
NumNakshatras == 27
MaxYears == 121
DayWindow == 1

\* self.dasha_lords and self.dasha_years, indexed from 0 in the code.
DashaLords ==
    <<"Ketu", "Venus", "Sun", "Moon", "Mars", "Rahu", "Jupiter", "Saturn", "Mercury">>
DashaYears == <<7, 20, 6, 10, 7, 18, 16, 19, 17>>
dasha_lords(i) == DashaLords[i + 1]
dasha_years(i) == DashaYears[i + 1]

\* years_lived = days_lived / 365.25: durations are held exactly, in units
\* of 1/1461 year, so that a day is 4 units and a year 1461.
UnitsPerYear == 1461
UnitsPerDay == 4

\* round(x, 2), in hundredths of a year, of a duration x in units.
Round2(units) == (200 * units + UnitsPerYear) \div (2 * UnitsPerYear)

\* start_dasha = moon_nakshatra % 9
StartDasha(n) == n % 9

\* total_years_cycle = sum(self.dasha_years)
RECURSIVE SumYears(_)
SumYears(i) == IF i = 0 THEN 0 ELSE dasha_years(i - 1) + SumYears(i - 1)
TotalYearsCycle == SumYears(Len(DashaYears))

\* years_in_cycle = years_lived % total_years_cycle, in units.
YearsInCycle(days) == (UnitsPerDay * days) % (TotalYearsCycle * UnitsPerYear)

\* cumulative <= years_in_cycle < cumulative + years
InSegmentClosedEnd(cumulative, years, pos) ==
    cumulative < pos /\ pos <= cumulative + years
InSegment(cumulative, years, pos) ==
    cumulative <= pos /\ pos < cumulative + years

\* The loop of lines 43-59 from iteration i on.  It breaks at the segment
\* holding the position; the segments before it are in dasha_sequence.
RECURSIVE FindDasha(_, _, _, _, _)
FindDasha(start, pos, i, cumulative, seq) ==
    IF i = 9
    THEN [found |-> FALSE, dasha_idx |-> (start + 8) % 9, cumulative |-> cumulative,
          years_left |-> 0, dasha_sequence |-> seq]
    ELSE LET dasha_idx == (start + i) % 9
             years == dasha_years(dasha_idx)
         IN IF InSegment(cumulative * UnitsPerYear, years * UnitsPerYear, pos)
            THEN [found |-> TRUE, dasha_idx |-> dasha_idx, cumulative |-> cumulative,
                  years_left |-> (cumulative + years) * UnitsPerYear - pos,
                  dasha_sequence |-> seq]
            ELSE FindDasha(start, pos, i + 1, cumulative + years,
                           Append(seq, [dasha |-> dasha_lords(dasha_idx),
                                        years |-> years,
                                        start |-> cumulative,
                                        end |-> cumulative + years]))

\* The loop of lines 62-73: the four entries of upcoming_dashas, the i-th
\* taken at start_dasha + i; starts_in_years is kept in units.
RECURSIVE Upcoming(_, _, _, _)
Upcoming(start, pos, i, cumulative) ==
    IF i > 4 THEN <<>>
    ELSE LET next_idx == (start + i) % 9
             d == cumulative * UnitsPerYear - pos
         IN <<[dasha |-> dasha_lords(next_idx),
               years |-> dasha_years(next_idx),
               starts_in_years |-> IF d > 0 THEN d ELSE 0]>>
            \o Upcoming(start, pos, i + 1, cumulative + dasha_years(next_idx))

NotCalculated ==
    [called |-> FALSE, status |-> "", current_dasha |-> "", years_remaining |-> 0,
     dasha_sequence |-> <<>>, upcoming_dashas |-> <<>>,
     age_years |-> 0, position_in_cycle |-> 0]

\* PredictionEngine.calculate_vimshottari_dasha, for a birth_date that
\* parses and lies `days` days before today.  When the loop finds no
\* segment, current_dasha is unbound and the except branch answers.
calculate_vimshottari_dasha(n, days) ==
    LET pos == YearsInCycle(days)
        f == FindDasha(StartDasha(n), pos, 0, 0, <<>>)
    IN IF ~f.found
       THEN [NotCalculated EXCEPT !.called = TRUE, !.status = "error"]
       ELSE [called |-> TRUE, status |-> "success",
             current_dasha |-> dasha_lords(f.dasha_idx),
             years_remaining |-> Round2(f.years_left),
             dasha_sequence |-> f.dasha_sequence,
             upcoming_dashas |->
                 Upcoming(StartDasha(n), pos, 1,
                          f.cumulative + dasha_years(f.dasha_idx)),
             age_years |-> Round2(UnitsPerDay * days),
             position_in_cycle |-> Round2(pos)]

\* days_lived within DayWindow days of y years after birth.
DaysAround(y) ==
    {(UnitsPerYear * y) \div UnitsPerDay + d : d \in (0 - DayWindow)..DayWindow}

\* The birth instants of the model: the quarter days of the birth day.
MaxBirthQuarter == 3
BirthTimes == 0..MaxBirthQuarter

\* The day counts of the model.
DaysLived == UNION {DaysAround(y) : y \in 0..MaxYears}

DashaInit ==
    /\ moon_nakshatra \in 1..NumNakshatras
    /\ days_lived \in DaysLived
    /\ dasha = NotCalculated
    /\ birth_date \in BirthTimes
    /\ timeline = <<>>

CalculateDasha ==
    /\ ~dasha.called
    /\ dasha' = calculate_vimshottari_dasha(moon_nakshatra, days_lived)
    /\ UNCHANGED <<moon_nakshatra, days_lived, birth_date, timeline>>
    /\ UNCHANGED <<wfVars, kbVars, reportVars, synVars, storeVars,
                 houseVars, engineVars, systemVars>>

(***************************************************************************)
(*   PREDICTION ENGINE (b0e7685b): calculate_dasha and its three helpers   *)
(***************************************************************************)

\* vimshottari_periods, in the insertion order of the dict.
vimshottari_periods ==
    <<[planet |-> "Ketu", years |-> 7], [planet |-> "Venus", years |-> 20],
      [planet |-> "Sun", years |-> 6], [planet |-> "Moon", years |-> 10],
      [planet |-> "Mars", years |-> 7], [planet |-> "Rahu", years |-> 18],
      [planet |-> "Jupiter", years |-> 16], [planet |-> "Saturn", years |-> 19],
      [planet |-> "Mercury", years |-> 17]>>

\* periods.get(planet, default)
PeriodsGet(periods, planet, default) ==
    IF \E i \in 1..Len(periods) : periods[i].planet = planet
    THEN periods[CHOOSE i \in 1..Len(periods) : periods[i].planet = planet].years
    ELSE default

\* total_days = sum(p * 365.25 for p in periods.values()), in quarter days
\* (a year of 365.25 days is UnitsPerYear quarter days).
RECURSIVE SumDays(_, _)
SumDays(periods, i) ==
    IF i = 0 THEN 0 ELSE periods[i].years * UnitsPerYear + SumDays(periods, i - 1)
total_days(periods) == SumDays(periods, Len(periods))

\* The loop of _get_active_dasha from the i-th period on: cumulative is
\* advanced first and the position compared with `<=`.
RECURSIVE ActiveFrom(_, _, _, _)
ActiveFrom(periods, position, i, cumulative) ==
    IF i > Len(periods) THEN periods[1].planet
    ELSE LET c == cumulative + periods[i].years * UnitsPerYear
         IN IF position <= c THEN periods[i].planet
            ELSE ActiveFrom(periods, position, i + 1, c)

\* _get_active_dasha(days, periods)
get_active_dasha(days, periods) ==
    ActiveFrom(periods, (UnitsPerDay * days) % total_days(periods), 1, 0)

\* _calculate_remaining_years(days, periods), in units of 1/1461 year: the
\* active period's length minus days modulo that length.
calculate_remaining_years(days, periods) ==
    LET active == get_active_dasha(days, periods)
    IN PeriodsGet(periods, active, 0) * UnitsPerYear
       - ((UnitsPerDay * days) % (PeriodsGet(periods, active, 1) * UnitsPerYear))

\* datetime.isoformat() of the instant u quarter days after the midnight
\* that starts the birth day: the date and the time of day, and its inverse
\* datetime.fromisoformat.
Iso(u) == [date |-> u \div UnitsPerDay, hour |-> 6 * (u % UnitsPerDay)]
FromIso(s) == UnitsPerDay * s.date + s.hour \div 6

\* current_date = end_date (line 382)
AdvanceToSame(current_date, end_date) == current_date
AdvanceTo(current_date, end_date) == end_date

\* The loop of _generate_dasha_timeline from the i-th period on.
RECURSIVE TimelineFrom(_, _, _)
TimelineFrom(periods, i, current_date) ==
    IF i > Len(periods) THEN <<>>
    ELSE LET end_date == current_date + periods[i].years * UnitsPerYear
         IN <<[period |-> periods[i].planet,
               start |-> Iso(current_date),
               end |-> Iso(end_date),
               years |-> periods[i].years]>>
            \o TimelineFrom(periods, i + 1, AdvanceTo(current_date, end_date))

\* _generate_dasha_timeline(start_date, periods)
generate_dasha_timeline(start_date, periods) == TimelineFrom(periods, 1, start_date)

\* chart: its 'moon_nakshatra_lord' is one of the nine lords or is absent
\* (chart.get then gives None).
NoLord == "None"
NoChart == [moon_nakshatra_lord |-> NoLord]
DashaCharts ==
    {[moon_nakshatra_lord |-> l] :
        l \in {vimshottari_periods[i].planet : i \in 1..Len(vimshottari_periods)}
              \cup {NoLord}}

NotReported ==
    [called |-> FALSE, method |-> "", nakshatra_lord |-> NoLord,
     active_dasha |-> "", years_remaining |-> 0, detailed_timeline |-> <<>>]

\* PredictionEngine.calculate_dasha(chart, current_date), for a chart whose
\* birth_datetime parses: days is (current_date - birth_date).days and
\* birth the birth instant.
calculate_dasha(chart, days, birth) ==
    [called |-> TRUE, method |-> "Vimshottari",
     nakshatra_lord |-> chart.moon_nakshatra_lord,
     active_dasha |-> get_active_dasha(days, vimshottari_periods),
     years_remaining |-> calculate_remaining_years(days, vimshottari_periods),
     detailed_timeline |-> generate_dasha_timeline(birth, vimshottari_periods)]

\* A direct call of _generate_dasha_timeline, anchored at the birth instant.
GenerateTimeline ==
    /\ timeline = <<>>
    /\ timeline' = generate_dasha_timeline(birth_date, vimshottari_periods)
    /\ UNCHANGED <<moon_nakshatra, days_lived, dasha, birth_date>>
    /\ UNCHANGED <<wfVars, kbVars, reportVars, synVars, storeVars,
                 houseVars, engineVars, systemVars>>

DashaNext == CalculateDasha \/ GenerateTimeline

ReportInit ==
    /\ moon_nakshatra = 0
    /\ dasha = NotCalculated
    /\ timeline = <<>>
    /\ days_lived \in DaysLived
    /\ birth_date \in BirthTimes
    /\ dasha_chart \in DashaCharts
    /\ dasha_report = NotReported

CalculateDashaReport ==
    /\ ~dasha_report.called
    /\ dasha_report' = calculate_dasha(dasha_chart, days_lived, birth_date)
    /\ UNCHANGED <<dasha_chart, dashaVars, wfVars, kbVars, synVars, storeVars,
                 houseVars, engineVars, systemVars>>

ReportNext == CalculateDashaReport

(***************************************************************************)
(*       SYNASTRY: SynastryAnalyzer and the manager's _check_* stubs       *)
(***************************************************************************)

\* moon_sign runs over 1..MaxSign: the twelve signs and one number that is
\* no sign.
MaxSign == 13

\* moon_nakshatra is Optional[str]: None, the empty string or a name.
NoneValue == "<None>"
Truthy(x) == x # NoneValue /\ x # ""
OrEmpty(x) == IF Truthy(x) THEN x ELSE ""

\* get_varna_from_sign and varna_hierarchy.get(varna, 0)
VarnaOfSign ==
    <<"Kshatriya", "Vaishya", "Shudra", "Brahmin",
      "Kshatriya", "Vaishya", "Shudra", "Brahmin",
      "Kshatriya", "Vaishya", "Shudra", "Brahmin">>
get_varna_from_sign(sign_num) ==
    IF sign_num \in 1..Len(VarnaOfSign) THEN VarnaOfSign[sign_num] ELSE "Unknown"
varna_hierarchy(varna) ==
    CASE varna = "Shudra" -> 1
      [] varna = "Vaishya" -> 2
      [] varna = "Kshatriya" -> 3
      [] varna = "Brahmin" -> 4
      [] OTHER -> 0

\* return 1 if score_a >= score_b else 0
VarnaPointsRank(score_a, score_b) == score_a
VarnaPoints(score_a, score_b) == IF score_a >= score_b THEN 1 ELSE 0

calculate_varna_kuta(a, b) ==
    VarnaPoints(varna_hierarchy(get_varna_from_sign(a.moon_sign)),
                varna_hierarchy(get_varna_from_sign(b.moon_sign)))

\* vashya_groups
vashya_groups ==
    <<{1, 2, 9, 10}, {3, 6, 7, 11, 9}, {4, 12, 10}, {5}, {8}>>
calculate_vashya_kuta(a, b) ==
    IF \E g \in 1..Len(vashya_groups) :
           a.moon_sign \in vashya_groups[g] /\ b.moon_sign \in vashya_groups[g]
    THEN 2 ELSE 0

calculate_tara_kuta(a, b) ==
    IF Truthy(a.moon_nakshatra) /\ Truthy(b.moon_nakshatra) THEN 3 ELSE 0

calculate_yoni_kuta(a, b) == 2

\* AstrologyRulesEngine.PLANET_FRIENDSHIP[planet]["friends"]
PLANET_FRIENDSHIP ==
    [Sun |-> {"Moon", "Mars", "Jupiter"}, Moon |-> {"Sun", "Mercury"},
     Mars |-> {"Sun", "Moon", "Jupiter"}, Mercury |-> {"Sun", "Venus"},
     Jupiter |-> {"Sun", "Moon", "Mars"}, Venus |-> {"Mercury", "Saturn"},
     Saturn |-> {"Mercury", "Venus"}]

\* AstrologyRulesEngine.PLANET_FRIENDSHIP[planet]["enemies"]
PLANET_ENEMIES ==
    [Sun |-> {"Venus", "Saturn"}, Moon |-> {"Saturn"},
     Mars |-> {"Mercury", "Venus", "Saturn"}, Mercury |-> {"Moon", "Mars"},
     Jupiter |-> {"Mercury", "Venus"}, Venus |-> {"Sun", "Mars"},
     Saturn |-> {"Sun", "Moon", "Mars"}]

\* AstrologyRulesEngine.get_sign_lord
SignLords ==
    <<"Mars", "Venus", "Mercury", "Moon", "Sun", "Mercury",
      "Venus", "Mars", "Jupiter", "Saturn", "Saturn", "Jupiter">>
get_sign_lord(sign_num) ==
    IF sign_num \in 1..Len(SignLords) THEN SignLords[sign_num] ELSE "Unknown"

\* The double loop over the planets of both charts counts the pairs of
\* equal names of which the second is a friend of the first.
calculate_graha_maitri(a, b) ==
    Min(Cardinality({pr \in a.planets \X b.planets :
                        /\ pr[1] = pr[2]
                        /\ pr[1] \in DOMAIN PLANET_FRIENDSHIP
                        /\ pr[2] \in PLANET_FRIENDSHIP[pr[1]]}), 5)

calculate_gana_kuta(a, b) == IF a.moon_sign = b.moon_sign THEN 6 ELSE 3

malefic_positions == {<<2, 1>>, <<2, 12>>, <<6, 8>>, <<8, 6>>}
calculate_bhakuta_kuta(a, b) ==
    IF <<a.moon_sign, b.moon_sign>> \in malefic_positions THEN 0 ELSE 7

\* nadi_map, in the insertion order of the dict.
nadi_map ==
    <<[nadi |-> "Aadi",
       naks |-> {"Ashwini", "Ardra", "Punarvasu", "Uttara Phalguni", "Hasta",
                 "Jyeshtha", "Moola", "Shatabhisha", "Purva Bhadra"}],
      [nadi |-> "Madhya",
       naks |-> {"Bharani", "Mrigashira", "Pushyami", "Purva Phalguni", "Chitra",
                 "Anuradha", "Purva Ashada", "Dhanishta", "Uttara Bhadra"}],
      [nadi |-> "Antya",
       naks |-> {"Krittika", "Rohini", "Ashlesha", "Magha", "Swati", "Vishakha",
                 "Uttara Ashada", "Shravana", "Revati"}]>>

\* _get_nadi_from_nakshatra: the first nadi whose list holds the name, or None.
get_nadi_from_nakshatra(nakshatra) ==
    IF \E i \in 1..Len(nadi_map) : nakshatra \in nadi_map[i].naks
    THEN nadi_map[CHOOSE i \in 1..Len(nadi_map) :
                      /\ nakshatra \in nadi_map[i].naks
                      /\ \A j \in 1..(i - 1) : nakshatra \notin nadi_map[j].naks].nadi
    ELSE NoneValue

\* if a_nadi and b_nadi and a_nadi != b_nadi: 8; elif a_nadi == b_nadi: 0;
\* otherwise 4.
NadiPointsSameIsFull(a_nadi, b_nadi) ==
    IF Truthy(a_nadi) /\ Truthy(b_nadi) /\ a_nadi = b_nadi THEN 8
    ELSE IF a_nadi # b_nadi /\ Truthy(a_nadi) /\ Truthy(b_nadi) THEN 0
    ELSE IF a_nadi = b_nadi THEN 0
    ELSE 4
NadiPoints(a_nadi, b_nadi) ==
    IF Truthy(a_nadi) /\ Truthy(b_nadi) /\ a_nadi # b_nadi THEN 8
    ELSE IF a_nadi = b_nadi THEN 0
    ELSE 4

calculate_nadi_kuta(a, b) ==
    NadiPoints(get_nadi_from_nakshatra(OrEmpty(a.moon_nakshatra)),
               get_nadi_from_nakshatra(OrEmpty(b.moon_nakshatra)))

\* sum([...]) over the list of the eight scores.
RECURSIVE SumButLast(_)
SumButLast(scores) ==
    IF Len(scores) <= 1 THEN 0 ELSE Head(scores) + SumButLast(Tail(scores))
RECURSIVE Sum(_)
Sum(scores) == IF scores = <<>> THEN 0 ELSE Head(scores) + Sum(Tail(scores))

NotCompared ==
    [called |-> FALSE, varna_score |-> 0, vashya_score |-> 0, tara_score |-> 0,
     yoni_score |-> 0, graha_maitri_score |-> 0, gana_score |-> 0,
     bhakuta_score |-> 0, nadi_score |-> 0, total_guna_score |-> 0,
     overall_compatibility_percentage |-> [num |-> 0, den |-> 36]]

\* SynastryAnalyzer.calculate_total_compatibility; the percentage
\* (total / 36) * 100 is kept as the fraction 100 * total / 36.
calculate_total_compatibility(a, b) ==
    LET r == [NotCompared EXCEPT
                 !.called = TRUE,
                 !.varna_score = calculate_varna_kuta(a, b),
                 !.vashya_score = calculate_vashya_kuta(a, b),
                 !.tara_score = calculate_tara_kuta(a, b),
                 !.yoni_score = calculate_yoni_kuta(a, b),
                 !.graha_maitri_score = calculate_graha_maitri(a, b),
                 !.gana_score = calculate_gana_kuta(a, b),
                 !.bhakuta_score = calculate_bhakuta_kuta(a, b),
                 !.nadi_score = calculate_nadi_kuta(a, b)]
        total == Sum(<<r.varna_score, r.vashya_score, r.tara_score, r.yoni_score,
                       r.graha_maitri_score, r.gana_score, r.bhakuta_score,
                       r.nadi_score>>)
    IN [r EXCEPT !.total_guna_score = total,
                 !.overall_compatibility_percentage = [num |-> 100 * total, den |-> 36]]

\* AstrologySystemV4Manager._check_varna ... _check_nadi: each returns a
\* fixed {'points': 0, 'max': n}, whatever the charts.
Factors ==
    <<"varna", "vashya", "tara", "yoni", "graha_maitri", "gana", "bhakuta", "nadi">>
check_factor(i, c1, c2) == [points |-> 0, max |-> i]
NotChecked == <<>>

\* The charts of the model.
SynNakshatras == {NoneValue, "", "Ashwini", "Ardra", "Bharani", "Krittika", "Pushya"}
SynPlanets == {{}, {"Sun"}, {"Sun", "Moon"}}
SynCharts ==
    [moon_sign : 1..MaxSign, moon_nakshatra : SynNakshatras, planets : SynPlanets]
NoSynChart == [moon_sign |-> 1, moon_nakshatra |-> NoneValue, planets |-> {}]

SynIdle ==
    /\ chart_a = NoSynChart
    /\ chart_b = NoSynChart
    /\ compat = NotCompared
    /\ kuta_checks = NotChecked

SynInit ==
    /\ chart_a \in SynCharts
    /\ chart_b \in SynCharts
    /\ compat = NotCompared
    /\ kuta_checks = NotChecked

CalculateTotalCompatibility ==
    /\ ~compat.called
    /\ compat' = calculate_total_compatibility(chart_a, chart_b)
    /\ UNCHANGED <<chart_a, chart_b, kuta_checks>>
    /\ UNCHANGED <<wfVars, kbVars, dashaVars, reportVars, storeVars,
                 houseVars, engineVars, systemVars>>

CheckKutas ==
    /\ kuta_checks = NotChecked
    /\ kuta_checks' = [i \in 1..Len(Factors) |-> check_factor(i, chart_a, chart_b)]
    /\ UNCHANGED <<chart_a, chart_b, compat>>
    /\ UNCHANGED <<wfVars, kbVars, dashaVars, reportVars, storeVars,
                 houseVars, engineVars, systemVars>>

SynNext == CalculateTotalCompatibility \/ CheckKutas

(***************************************************************************)
(*                          WORKFLOW ENGINE                                *)
(***************************************************************************)

\* Steps of a workflow that the model follows (the registered lists are cut
\* to this length), and the number of execute_workflow calls of a behaviour.
MaxSteps == 3
MaxCalls == 2

\* The caller threads that may call into one engine.
Threads == {"t1", "t2"}

\* class WorkflowState
IDLE == "idle"
LOADING == "loading"
ANALYZING == "analyzing"
PREDICTING == "predicting"
COMPLETE == "complete"
ERROR == "error"
WorkflowState == {IDLE, LOADING, ANALYZING, PREDICTING, COMPLETE, ERROR}

\* The step names of the _build_*_workflow lists, in their registered order.
CompleteAnalysisSteps ==
    <<"extract_basics", "analyze_lagna", "analyze_moon", "analyze_planets",
      "calculate_yogas", "calculate_doshas", "divisional_charts",
      "dasha_analysis", "transits", "remedies", "synthesis">>
MarriageSteps ==
    <<"venus_analysis", "mars_analysis", "seventh_house", "navamsha",
      "timing", "compatibility", "remedies">>
CareerSteps ==
    <<"tenth_house", "saturn_analysis", "sun_analysis", "mercury_analysis",
      "skills", "timing", "remedies">>
HealthSteps ==
    <<"sixth_house", "eighth_house", "moon_analysis", "mars_analysis",
      "diseases", "prevention", "remedies">>
PredictionSteps ==
    <<"current_dasha", "dasha_effects", "current_transits", "transit_effects",
      "gochara", "timeline", "predictions">>
QASteps ==
    <<"classify_question", "identify_indicators", "apply_rules",
      "check_yogas", "check_doshas", "generate_answer", "assess_confidence">>

FirstSteps(s) == SubSeq(s, 1, Min(Len(s), MaxSteps))

\* _register_workflows: the registry built by the constructor.
RegisteredWorkflows ==
    [n \in {"complete_analysis", "marriage_analysis", "career_analysis",
            "health_analysis", "prediction", "question_answering"} |->
        CASE n = "complete_analysis" -> FirstSteps(CompleteAnalysisSteps)
          [] n = "marriage_analysis" -> FirstSteps(MarriageSteps)
          [] n = "career_analysis" -> FirstSteps(CareerSteps)
          [] n = "health_analysis" -> FirstSteps(HealthSteps)
          [] n = "prediction" -> FirstSteps(PredictionSteps)
          [] OTHER -> FirstSteps(QASteps)]

\* The workflow names callers pass: two registered ones and one that is not.
CallNames == {"complete_analysis", "question_answering", "horary_analysis"}

\* The data argument.  is_dict: whether it is a dict (None otherwise);
\* raises_at: the position of the step whose method raises on this input
\* (0: none does).  step.method is an arbitrary Callable of WorkflowStep.
DataInputs ==
    {d \in [is_dict : BOOLEAN, raises_at : 0..MaxSteps] :
        ~d.is_dict => d.raises_at = 0}

\* The step methods that call data.get(...): _extract_basic_info,
\* _analyze_lagna, _analyze_moon.  On None they raise AttributeError.
StepUsesData(step) == step \in {"extract_basics", "analyze_lagna", "analyze_moon"}

\* step.method(data, results) raises, for the k-th step of the workflow.
StepRaises(step, k, data) ==
    \/ StepUsesData(step) /\ ~data.is_dict
    \/ data.raises_at = k

\* The value step.method(data, results) returns.
StepResult(step, data) == [step |-> step, from_input |-> StepUsesData(step)]

\* workflow_name in self.workflows
IsRegisteredAlways(reg, name) == TRUE
IsRegistered(reg, name) == name \in DOMAIN reg

\* self.workflows[workflow_name]
Lookup(reg, name) == IF name \in DOMAIN reg THEN reg[name] ELSE <<>>

\* results[step.name] = result, on an insertion-ordered dict held as a
\* sequence of (name, value) entries.
DictKeys(d) == {d[i].name : i \in 1..Len(d)}
DictSetUnderFirstKey(d, name, value) ==
    IF Len(d) = 0 THEN <<[name |-> name, value |-> value]>>
    ELSE [d EXCEPT ![1] = [name |-> d[1].name, value |-> value]]
DictSet(d, name, value) ==
    IF name \in DictKeys(d)
    THEN [i \in 1..Len(d) |->
            IF d[i].name = name THEN [name |-> name, value |-> value] ELSE d[i]]
    ELSE Append(d, [name |-> name, value |-> value])

\* The entry execute_workflow appends to execution_log after a step.
LogEntryNamingWorkflow(workflow_name, step) ==
    [workflow |-> workflow_name, step |-> workflow_name, status |-> "success"]
LogEntry(workflow_name, step) ==
    [workflow |-> workflow_name, step |-> step, status |-> "success"]

\* The three return statements of execute_workflow, as one record shape.
NoReturn == [kind |-> "none", workflow |-> "", error |-> "", results |-> <<>>]
NotFoundReturn(workflow_name) ==
    [kind |-> "not_found", workflow |-> workflow_name,
     error |-> "not found", results |-> <<>>]
ErrorReturnEmpty(step, results) ==
    [kind |-> "error", workflow |-> "", error |-> step, results |-> <<>>]
ErrorReturn(step, results) ==
    [kind |-> "error", workflow |-> "", error |-> step, results |-> results]
SuccessReturn(workflow_name, results) ==
    [kind |-> "success", workflow |-> workflow_name, error |-> "",
     results |-> results]

\* The frame of a thread that is not inside execute_workflow.
IdleRun ==
    [pc |-> "idle", workflow_name |-> "", data |-> [is_dict |-> TRUE, raises_at |-> 0],
     results |-> <<>>, step |-> 1, ret |-> NoReturn,
     invoked |-> <<>>, written |-> {}, saw_failure |-> FALSE]

WorkflowInit ==
    /\ state = IDLE
    /\ execution_log = <<>>
    /\ workflows = RegisteredWorkflows
    /\ runs = [t \in Threads |-> IdleRun]
    /\ calls = 0
    /\ latest = "none"

KbIdle ==
    /\ rule = NoRule
    /\ chart_data = [f \in Fields |-> None]
    /\ outcome = NotApplied

DashaIdle ==
    /\ moon_nakshatra = 0
    /\ days_lived = 0
    /\ dasha = NotCalculated
    /\ birth_date = 0
    /\ timeline = <<>>

ReportIdle ==
    /\ dasha_chart = NoChart
    /\ dasha_report = NotReported

Running(t) == runs[t].pc = "running"
NotInCall(t) == runs[t].pc \in {"idle", "done"}

\* execute_workflow, lines 146-147: the name is not registered.
ExecuteUnknown(t, name, data) ==
    /\ NotInCall(t)
    /\ calls < MaxCalls
    /\ ~IsRegistered(workflows, name)
    /\ runs' = [runs EXCEPT ![t] =
                  [IdleRun EXCEPT !.pc = "done", !.workflow_name = name,
                                  !.data = data, !.ret = NotFoundReturn(name)]]
    /\ calls' = calls + 1
    /\ latest' = t
    /\ UNCHANGED <<state, execution_log, workflows>>
    /\ UNCHANGED <<kbVars, dashaVars, reportVars, synVars, storeVars,
                 houseVars, engineVars, systemVars>>

\* self.state = WorkflowState.ANALYZING, line 149.
EntryStateLoading == LOADING
EntryState == ANALYZING

\* execute_workflow, lines 146-151: the name is registered; the engine
\* enters ANALYZING and the run starts with an empty result map.
Begin(t, name, data) ==
    /\ NotInCall(t)
    /\ calls < MaxCalls
    /\ IsRegistered(workflows, name)
    /\ state' = EntryState
    /\ runs' = [runs EXCEPT ![t] =
                  [IdleRun EXCEPT !.pc = "running", !.workflow_name = name,
                                  !.data = data, !.written = {"state"}]]
    /\ calls' = calls + 1
    /\ latest' = t
    /\ UNCHANGED <<execution_log, workflows>>
    /\ UNCHANGED <<kbVars, dashaVars, reportVars, synVars, storeVars,
                 houseVars, engineVars, systemVars>>

CurrentWorkflow(t) == Lookup(workflows, runs[t].workflow_name)
CurrentStep(t) == CurrentWorkflow(t)[runs[t].step]
Invocation(t) ==
    [step |-> CurrentStep(t), data |-> runs[t].data, results |-> runs[t].results]

\* One iteration of the for loop, lines 154-161: the step's method returns.
StepOk(t) ==
    /\ Running(t)
    /\ runs[t].step <= Len(CurrentWorkflow(t))
    /\ ~StepRaises(CurrentStep(t), runs[t].step, runs[t].data)
    /\ runs' = [runs EXCEPT
                  ![t].results = DictSet(runs[t].results, CurrentStep(t),
                                         StepResult(CurrentStep(t), runs[t].data)),
                  ![t].invoked = Append(runs[t].invoked, Invocation(t)),
                  ![t].written = runs[t].written \cup {"execution_log"},
                  ![t].step = runs[t].step + 1]
    /\ execution_log' = Append(execution_log,
                               LogEntry(runs[t].workflow_name, CurrentStep(t)))
    /\ UNCHANGED <<state, workflows, calls, latest>>
    /\ UNCHANGED <<kbVars, dashaVars, reportVars, synVars, storeVars,
                 houseVars, engineVars, systemVars>>

\* What a raising step does to the frames: the run of t returns the error
\* and its completed steps; every other frame is left alone.
RaiseEffectAll(rs, t, step) ==
    [u \in Threads |->
        IF rs[u].pc = "running"
        THEN [rs[u] EXCEPT !.pc = "done", !.ret = ErrorReturn(step, rs[u].results)]
        ELSE rs[u]]
RaiseEffect(rs, t, step) ==
    [u \in Threads |->
        IF u = t
        THEN [rs[u] EXCEPT !.pc = "done",
                           !.ret = ErrorReturn(step, rs[u].results),
                           !.invoked = Append(rs[u].invoked,
                                              [step |-> step, data |-> rs[u].data,
                                               results |-> rs[u].results]),
                           !.written = rs[u].written \cup {"state"}]
        ELSE IF rs[u].pc = "running"
             THEN [rs[u] EXCEPT !.saw_failure = TRUE]
             ELSE rs[u]]

\* Lines 155 and 162-164: the step's method raises.
StepRaise(t) ==
    /\ Running(t)
    /\ runs[t].step <= Len(CurrentWorkflow(t))
    /\ StepRaises(CurrentStep(t), runs[t].step, runs[t].data)
    /\ state' = ERROR
    /\ runs' = RaiseEffect(runs, t, CurrentStep(t))
    /\ UNCHANGED <<execution_log, workflows, calls, latest>>
    /\ UNCHANGED <<kbVars, dashaVars, reportVars, synVars, storeVars,
                 houseVars, engineVars, systemVars>>

\* Lines 166-171: the loop is exhausted.
Finish(t) ==
    /\ Running(t)
    /\ runs[t].step > Len(CurrentWorkflow(t))
    /\ state' = COMPLETE
    /\ runs' = [runs EXCEPT
                  ![t].pc = "done",
                  ![t].ret = SuccessReturn(runs[t].workflow_name, runs[t].results),
                  ![t].written = runs[t].written \cup {"state"}]
    /\ UNCHANGED <<execution_log, workflows, calls, latest>>
    /\ UNCHANGED <<kbVars, dashaVars, reportVars, synVars, storeVars,
                 houseVars, engineVars, systemVars>>

NoOtherRunning(t) == \A u \in Threads \ {t} : ~Running(u)

\* Calls made one after the other: a call is entered only when no other
\* call is in progress.
SeqNext ==
    \/ \E t \in Threads, name \in CallNames, data \in DataInputs :
          NoOtherRunning(t) /\ ExecuteUnknown(t, name, data)
    \/ \E t \in Threads, name \in CallNames, data \in DataInputs :
          NoOtherRunning(t) /\ Begin(t, name, data)
    \/ \E t \in Threads : NoOtherRunning(t) /\ StepOk(t)
    \/ \E t \in Threads : NoOtherRunning(t) /\ StepRaise(t)
    \/ \E t \in Threads : NoOtherRunning(t) /\ Finish(t)

\* Calls made by threads that interleave at step granularity.
ConcNext ==
    \/ \E t \in Threads, name \in CallNames, data \in DataInputs :
          ExecuteUnknown(t, name, data)
    \/ \E t \in Threads, name \in CallNames, data \in DataInputs :
          Begin(t, name, data)
    \/ \E t \in Threads : StepOk(t)
    \/ \E t \in Threads : StepRaise(t)
    \/ \E t \in Threads : Finish(t)

(***************************************************************************)
(*   INGESTION: KnowledgeBase.load_json_ruleset and                        *)
(*   KnowledgeBaseIntegrator.load_all_knowledge_bases / search_rules       *)
(***************************************************************************)

\* A batch is a JSON file holding a list of at most MaxBatch records;
\* search_rules is called with a limit in 0..MaxLimit.
MaxBatch == 3
MaxLimit == 2

\* A key a record does not have, and a value that is a JSON list (as a
\* dict key it is unhashable).
Absent == "<absent>"
Unhashable == "<list>"

\* The records of the model: a dict with the keys id, category, type, name
\* and text, each present or not, or a value that is no dict.  None of them
\* has the keys interpretation, meaning, remedy or remedies.
MkRule(id, category, type, name, text) ==
    [is_dict |-> TRUE, id |-> id, category |-> category, type |-> type,
     name |-> name, text |-> text, source |-> Absent]
Records ==
    {MkRule("r1", "marriage", Absent, Absent, "Venus"),
     MkRule(Absent, Absent, Absent, Absent, "venus"),
     MkRule(Absent, Absent, "yoga", "Gaja", "Jupiter"),
     MkRule("r1", "career", Absent, Absent, "mars"),
     [MkRule(Absent, Absent, Absent, Absent, "note") EXCEPT !.is_dict = FALSE],
     MkRule("r2", Unhashable, Absent, Absent, "venus"),
     MkRule(Unhashable, "marriage", Absent, Absent, "moon")}
Batches == UNION {[1..n -> Records] : n \in 0..MaxBatch}
SourceNames == {"classical"}

\* str(rule): the keys the dict has, in order, each with its value.
RuleKeys == <<"id", "category", "type", "name", "text", "source">>
RuleValue(a_rule, key) ==
    CASE key = "id" -> a_rule.id
      [] key = "category" -> a_rule.category
      [] key = "type" -> a_rule.type
      [] key = "name" -> a_rule.name
      [] key = "text" -> a_rule.text
      [] key = "source" -> a_rule.source
RECURSIVE StrFrom(_, _)
StrFrom(a_rule, i) ==
    IF i > Len(RuleKeys) THEN <<>>
    ELSE (IF RuleValue(a_rule, RuleKeys[i]) = Absent THEN <<>>
          ELSE <<RuleKeys[i], RuleValue(a_rule, RuleKeys[i])>>)
         \o StrFrom(a_rule, i + 1)
StrOf(a_rule) == StrFrom(a_rule, 1)

\* str.lower(), word by word.
Lower(w) ==
    CASE w = "Venus" -> "venus"
      [] w = "VENUS" -> "venus"
      [] w = "Gaja" -> "gaja"
      [] w = "Jupiter" -> "jupiter"
      [] w = "CAREER" -> "career"
      [] OTHER -> w

\* keyword_lower in rule_str, on the words of the two strings.
Contains(rule_str, keyword_lower) ==
    \E i \in 1..Len(rule_str) : Lower(rule_str[i]) = keyword_lower

\* rule.get('category', rule.get('type', 'general'))
CategoryOf(a_rule) ==
    IF a_rule.category # Absent THEN a_rule.category
    ELSE IF a_rule.type # Absent THEN a_rule.type
    ELSE "general"

\* The ids of a store: one the record carries, hashlib.md5(str(rule))[:8]
\* (kept as the digest of that string: equal strings, equal digests), or
\* f"{name}_{len(self.formula_cache)}".
GivenId(id) == [kind |-> "given", text |-> id, n |-> 0, of |-> <<>>]
Md5Id(rule_str) == [kind |-> "md5", text |-> "", n |-> 0, of |-> rule_str]
GeneratedId(name, n) == [kind |-> "generated", text |-> name, n |-> n, of |-> <<>>]

\* d.get(name, default), d[name].append(value) and d.values() on the
\* insertion-ordered dicts of the stores.
DictGet(d, name, default) ==
    IF name \in DictKeys(d)
    THEN d[CHOOSE i \in 1..Len(d) : d[i].name = name].value
    ELSE default
DictAppend(d, name, value) == DictSet(d, name, Append(DictGet(d, name, <<>>), value))
DictValues(d) == [i \in 1..Len(d) |-> d[i].value]

\* KnowledgeBase.__init__; loaded, returned and raised record the call of
\* load_json_ruleset and what it gave back.
NewKnowledgeBase ==
    [rules |-> <<>>, formulas |-> <<>>, yogas |-> <<>>, doshas |-> <<>>,
     total_rules |-> 0, total_formulas |-> 0, sources |-> {},
     loaded |-> FALSE, returned |-> 0, raised |-> FALSE]

\* One pass of the for loop of load_json_ruleset (lines 88-120) over a
\* record: the store after it, and whether it raised.  An unhashable
\* category raises at self.rules[category], an unhashable id at
\* self.formulas[rule_id] (after the append to self.rules).
IndexRule(store, record, source_name) ==
    IF ~record.is_dict THEN [store |-> store, raised |-> FALSE, counted |-> 0]
    ELSE LET category == CategoryOf(record)
             a_rule == [record EXCEPT !.source = source_name]
             rule_id == IF a_rule.id # Absent THEN GivenId(a_rule.id) ELSE Md5Id(StrOf(a_rule))
             s1 == [store EXCEPT !.rules = DictAppend(@, category, a_rule)]
             s2 == [s1 EXCEPT !.formulas = DictSet(@, rule_id, a_rule)]
             name == IF a_rule.name # Absent THEN a_rule.name ELSE "unknown"
             s3 == IF a_rule.type = "yoga"
                   THEN [s2 EXCEPT !.yogas = DictSet(@, name, a_rule)] ELSE s2
             s4 == IF a_rule.type = "dosha"
                   THEN [s3 EXCEPT !.doshas = DictSet(@, name, a_rule)] ELSE s3
         IN IF category = Unhashable
            THEN [store |-> store, raised |-> TRUE, counted |-> 0]
            ELSE IF a_rule.id = Unhashable
            THEN [store |-> s1, raised |-> TRUE, counted |-> 0]
            ELSE [store |-> [s4 EXCEPT !.total_rules = @ + 1],
                  raised |-> FALSE, counted |-> 1]

\* The loop from the i-th record on; rule_count is the count so far.
RECURSIVE IndexRules(_, _, _, _, _)
IndexRules(store, rules_list, source_name, i, rule_count) ==
    IF i > Len(rules_list)
    THEN [store |-> store, raised |-> FALSE, rule_count |-> rule_count]
    ELSE LET r == IndexRule(store, rules_list[i], source_name)
         IN IF r.raised
            THEN [store |-> r.store, raised |-> TRUE, rule_count |-> rule_count]
            ELSE IndexRules(r.store, rules_list, source_name, i + 1,
                            rule_count + r.counted)

\* KnowledgeBase.load_json_ruleset on a file that holds the list
\* rules_list: the except branch answers 0 and leaves what was indexed.
load_json_ruleset(store, rules_list, source_name) ==
    LET r == IndexRules(store, rules_list, source_name, 1, 0)
    IN IF r.raised
       THEN [r.store EXCEPT !.loaded = TRUE, !.returned = 0, !.raised = TRUE]
       ELSE [r.store EXCEPT !.total_formulas = Len(r.store.formulas),
                            !.sources = @ \cup {source_name},
                            !.loaded = TRUE, !.returned = r.rule_count,
                            !.raised = FALSE]

\* KnowledgeBaseIntegrator.__init__; loaded and stats record the call of
\* load_all_knowledge_bases and the stats it gave back.
NoStats == [files_loaded |-> 0, total_rules |-> 0, files |-> <<>>]
NewIntegrator ==
    [knowledge_bases |-> <<>>, rule_index |-> <<>>, formula_cache |-> <<>>,
     total_files |-> 0, total_rules |-> 0, total_formulas |-> 0,
     loaded |-> FALSE, stats |-> NoStats]

\* _extract_rules(data) for a data that is a list: its dicts.
IsDict(r) == r.is_dict
extract_rules(data) == SelectSeq(data, IsDict)

\* One pass of the inner loop of load_all_knowledge_bases (lines 351-358).
\* An unhashable category raises at `category not in self.rule_index`, an
\* unhashable id at self.formula_cache[rule_id] (after the append).
CacheRule(store, name, a_rule) ==
    LET category == CategoryOf(a_rule)
        s1 == [store EXCEPT !.rule_index = DictAppend(@, category, a_rule)]
        rule_id == IF a_rule.id # Absent THEN GivenId(a_rule.id)
                   ELSE GeneratedId(name, Len(s1.formula_cache))
    IN IF category = Unhashable THEN [store |-> store, raised |-> TRUE]
       ELSE IF a_rule.id = Unhashable THEN [store |-> s1, raised |-> TRUE]
       ELSE [store |-> [s1 EXCEPT !.formula_cache = DictSet(@, rule_id, a_rule)],
             raised |-> FALSE]

RECURSIVE CacheRules(_, _, _, _)
CacheRules(store, name, rules, i) ==
    IF i > Len(rules) THEN [store |-> store, raised |-> FALSE]
    ELSE LET r == CacheRule(store, name, rules[i])
         IN IF r.raised THEN r ELSE CacheRules(r.store, name, rules, i + 1)

\* The try block of one file (lines 343-365): on a raise the except branch
\* prints and the stats of the file are not written.
LoadFile(store, stats, name, data) ==
    LET rules == extract_rules(data)
        s0 == [store EXCEPT !.knowledge_bases = DictSet(@, name, data)]
        r == CacheRules(s0, name, rules, 1)
    IN IF r.raised THEN [store |-> r.store, stats |-> stats]
       ELSE [store |-> r.store,
             stats |-> [files_loaded |-> stats.files_loaded + 1,
                        total_rules |-> stats.total_rules + Len(rules),
                        files |-> DictSet(stats.files, name, Len(rules))]]

RECURSIVE LoadFiles(_, _, _, _)
LoadFiles(store, stats, kb_files, i) ==
    IF i > Len(kb_files) THEN [store |-> store, stats |-> stats]
    ELSE LET r == LoadFile(store, stats, kb_files[i].name, kb_files[i].value)
         IN LoadFiles(r.store, r.stats, kb_files, i + 1)

\* KnowledgeBaseIntegrator.load_all_knowledge_bases(kb_files), kb_files
\* being the ordered dict from file name to the list the file holds.
load_all_knowledge_bases(store, kb_files) ==
    LET r == LoadFiles(store, NoStats, kb_files, 1)
    IN [r.store EXCEPT !.total_files = r.stats.files_loaded,
                       !.total_rules = r.stats.total_rules,
                       !.total_formulas = Len(r.store.formula_cache),
                       !.loaded = TRUE, !.stats = r.stats]

\* len(results) >= limit, tested after the append.
LimitReached(results, limit) == Len(results) >= limit

\* The loop of search_rules over self.formula_cache.values(), from the
\* i-th value on.
RECURSIVE SearchFrom(_, _, _, _, _)
SearchFrom(values, keyword_lower, limit, i, results) ==
    IF i > Len(values) THEN results
    ELSE IF Contains(StrOf(values[i]), keyword_lower)
    THEN LET appended == Append(results, values[i])
         IN IF LimitReached(appended, limit) THEN appended
            ELSE SearchFrom(values, keyword_lower, limit, i + 1, appended)
    ELSE SearchFrom(values, keyword_lower, limit, i + 1, results)

\* KnowledgeBaseIntegrator.search_rules(keyword, limit)
search_rules(store, keyword, limit) ==
    SearchFrom(DictValues(store.formula_cache), Lower(keyword), limit, 1, <<>>)

\* Two stores of each class, both constructed fresh; the attributes of a
\* store are its own (set on self in __init__).
Stores == {1, 2}
SelfOfFirst(stores, k) == stores[1]
Self(stores, k) == stores[k]

Keywords == {"VENUS", "career", "zzz"}
NotSearched == [called |-> FALSE, keyword |-> "", limit |-> 0, results |-> <<>>]

StoreIdle ==
    /\ batch = <<>>
    /\ batch_source = ""
    /\ kb = [k \in Stores |-> NewKnowledgeBase]
    /\ kbi = [k \in Stores |-> NewIntegrator]
    /\ found = NotSearched

StoreInit ==
    /\ batch \in Batches
    /\ batch_source \in SourceNames
    /\ kb = [k \in Stores |-> NewKnowledgeBase]
    /\ kbi = [k \in Stores |-> NewIntegrator]
    /\ found = NotSearched

\* store k ingests the file that holds the batch, under the source name.
LoadJsonRuleset(k) ==
    /\ ~kb[k].loaded
    /\ kb' = [kb EXCEPT ![k] = load_json_ruleset(Self(kb, k), batch, batch_source)]
    /\ UNCHANGED <<batch, batch_source, kbi, found>>
    /\ UNCHANGED <<wfVars, kbVars, dashaVars, reportVars, synVars,
                 houseVars, engineVars, systemVars>>

\* integrator k integrates the one file, named by the source name.
LoadAllKnowledgeBases(k) ==
    /\ ~kbi[k].loaded
    /\ kbi' = [kbi EXCEPT ![k] =
                  load_all_knowledge_bases(Self(kbi, k),
                                           <<[name |-> batch_source, value |-> batch]>>)]
    /\ UNCHANGED <<batch, batch_source, kb, found>>
    /\ UNCHANGED <<wfVars, kbVars, dashaVars, reportVars, synVars,
                 houseVars, engineVars, systemVars>>

\* A search of the first integrator once it is loaded.
SearchRules(keyword, limit) ==
    /\ kbi[1].loaded
    /\ ~found.called
    /\ found' = [called |-> TRUE, keyword |-> keyword, limit |-> limit,
                 results |-> search_rules(kbi[1], keyword, limit)]
    /\ UNCHANGED <<batch, batch_source, kb, kbi>>
    /\ UNCHANGED <<wfVars, kbVars, dashaVars, reportVars, synVars,
                 houseVars, engineVars, systemVars>>

StoreNext ==
    \/ \E k \in Stores : LoadJsonRuleset(k)
    \/ \E k \in Stores : LoadAllKnowledgeBases(k)
    \/ \E keyword \in Keywords, limit \in 0..MaxLimit : SearchRules(keyword, limit)

(***************************************************************************)
(*   HOUSES: get_house_cusp_sign, _get_house_lord, _is_planet_in_house     *)
(*   and PredictionEngine.detect_mangal_dosha                              *)
(***************************************************************************)

\* The signs of the zodiac and the houses of a chart.
NumSigns == 12

\* AstrologyRulesEngine.get_house_cusp_sign(asc_sign, house_num)
HouseCuspSignCountedFromNext(asc, house) == ((asc - 1 + house) % 12) + 1
get_house_cusp_sign(asc, house) == ((asc - 1 + house - 1) % 12) + 1

\* PredictionEngine._get_house_lord(house, lagna): the value it returns is
\* house_sign (the lords dict is not used).
get_house_lord(house, lagna) == ((house - 1 + lagna - 1) % 12) + 1

\* AdvancedChartProcessor._is_planet_in_house(planet_pos, house,
\* lagna_rashi), planet_rashi being planet_pos.get('rashi', 1).
is_planet_in_house(planet_rashi, house, lagna_rashi) ==
    planet_rashi = ((lagna_rashi - 1 + house - 1) % 12) + 1

NoCusp == [called |-> FALSE, sign |-> 0, house_sign |-> 0, houses_of_sign |-> {}]

\* detect_mangal_dosha: afflicted_houses, and the severity of a house in it.
afflicted_houses_without_first == {4, 7, 8, 12}
afflicted_houses == {1, 4, 7, 8, 12}
SeverityOf(mars_house) ==
    IF mars_house \in {7, 8} THEN 5
    ELSE IF mars_house \in {1, 4, 12} THEN 3
    ELSE 2

\* The remedies lists of detect_mangal_dosha.
StrongRemedies == <<"Mangal pooja", "Angaraka Stotra recitation", "Charity on Tuesday">>
MildRemedies == <<"Light a lamp on Tuesdays", "Donate red items", "Recite Hanuman Chalisa">>

\* The chart_data of the model: a dict whose mars_house is a house number,
\* a number that is no house (0, 13), or missing; or a value that is no
\* dict (None), on which chart_data.get raises.
MaxHouse == 13
MarsCharts ==
    {c \in [is_dict : BOOLEAN, has_mars_house : BOOLEAN, mars_house : 0..MaxHouse] :
        ~c.has_mars_house => c.mars_house = 0}

\* chart_data.get('mars_house', 1)
MarsHouseOf(a_chart) ==
    IF a_chart.has_mars_house THEN a_chart.mars_house ELSE 1

NotDetected ==
    [called |-> FALSE, status |-> "", has_mangal_dosha |-> FALSE, severity |-> 0,
     mars_house |-> 0, remedies |-> <<>>]

\* PredictionEngine.detect_mangal_dosha(chart_data)
detect_mangal_dosha(a_chart) ==
    IF ~a_chart.is_dict
    THEN [NotDetected EXCEPT !.called = TRUE, !.status = "error"]
    ELSE LET mars_house == MarsHouseOf(a_chart)
             has_dosha == mars_house \in afflicted_houses
             severity == IF has_dosha THEN SeverityOf(mars_house) ELSE 0
             remedies == IF has_dosha /\ severity >= 4 THEN StrongRemedies
                         ELSE IF has_dosha /\ severity >= 2 THEN MildRemedies
                         ELSE <<>>
         IN [called |-> TRUE, status |-> "success", has_mangal_dosha |-> has_dosha,
             severity |-> severity, mars_house |-> mars_house,
             remedies |-> remedies]

HouseIdle ==
    /\ asc_sign = 1
    /\ house_num = 1
    /\ cusp = NoCusp
    /\ mars_chart = [is_dict |-> TRUE, has_mars_house |-> FALSE, mars_house |-> 0]
    /\ mangal = NotDetected

HouseInit ==
    /\ asc_sign \in 1..NumSigns
    /\ house_num \in 1..NumSigns
    /\ cusp = NoCusp
    /\ mars_chart \in MarsCharts
    /\ mangal = NotDetected

\* The sign of the house from the ascendant, by each of the three
\* derivations; houses_of_sign are the houses whose cusp is that sign.
GetHouseCuspSign ==
    /\ ~cusp.called
    /\ cusp' = [called |-> TRUE,
                sign |-> get_house_cusp_sign(asc_sign, house_num),
                house_sign |-> get_house_lord(house_num, asc_sign),
                houses_of_sign |->
                    {h \in 1..NumSigns :
                        is_planet_in_house(get_house_cusp_sign(asc_sign, house_num),
                                           h, asc_sign)}]
    /\ UNCHANGED <<asc_sign, house_num, mars_chart, mangal>>
    /\ UNCHANGED <<wfVars, kbVars, dashaVars, reportVars, synVars, storeVars,
                   engineVars, systemVars>>

DetectMangalDosha ==
    /\ ~mangal.called
    /\ mangal' = detect_mangal_dosha(mars_chart)
    /\ UNCHANGED <<asc_sign, house_num, cusp, mars_chart>>
    /\ UNCHANGED <<wfVars, kbVars, dashaVars, reportVars, synVars, storeVars,
                   engineVars, systemVars>>

HouseNext == GetHouseCuspSign \/ DetectMangalDosha

(***************************************************************************)
(*   UNIFIED ENGINE: UnifiedAstrologyEngine over its WorkflowEngine (the   *)
(*   workflow variables) and its KnowledgeBaseIntegrator (kbi[1])          *)
(***************************************************************************)

\* The knowledge-base files handed to initialize_with_kb_files: none, or
\* the one file that holds the batch.
KbFileSets(name, data) == {<<>>, <<[name |-> name, value |-> data]>>}

\* The batches of the unified engine: a file of one sound record, and a
\* file whose record makes the loop over the file raise.
EngineBatches ==
    {<<MkRule("r1", "marriage", Absent, Absent, "Venus")>>,
     <<MkRule("r2", Unhashable, Absent, Absent, "venus")>>}

\* What the engine's own methods return when they do not hand over to
\* execute_workflow.
NoEngineReturn == [kind |-> "none", files_loaded |-> 0, ready_for_analysis |-> FALSE]
NotInitializedReturn ==
    [kind |-> "error", files_loaded |-> 0, ready_for_analysis |-> FALSE]
InitializedReturn(stats, ready) ==
    [kind |-> "initialized", files_loaded |-> stats.files_loaded,
     ready_for_analysis |-> ready]

EngineIdle ==
    /\ is_ready = FALSE
    /\ engine_ret = NoEngineReturn

\* UnifiedAstrologyEngine.__init__ over a file of the model.
EngineInit ==
    /\ batch \in EngineBatches
    /\ batch_source \in SourceNames
    /\ kb = [k \in Stores |-> NewKnowledgeBase]
    /\ kbi = [k \in Stores |-> NewIntegrator]
    /\ found = NotSearched
    /\ EngineIdle

\* initialize_with_kb_files(kb_files), called once.
InitializeWithKbFiles(kb_files) ==
    /\ ~kbi[1].loaded
    /\ kbi' = [kbi EXCEPT ![1] = load_all_knowledge_bases(kbi[1], kb_files)]
    /\ is_ready' = TRUE
    /\ engine_ret' = InitializedReturn(kbi'[1].stats, is_ready')
    /\ UNCHANGED <<batch, batch_source, kb, found>>
    /\ UNCHANGED <<wfVars, kbVars, dashaVars, reportVars, synVars, houseVars,
                   systemVars>>

\* analyze_with_workflow and answer_question on an engine that is not
\* ready: the error return of lines 460-461 and 467-468.
RefuseNotReady ==
    /\ ~is_ready
    /\ engine_ret' = NotInitializedReturn
    /\ UNCHANGED <<is_ready, wfVars, kbVars, dashaVars, reportVars, synVars,
                   storeVars, houseVars, systemVars>>

\* analyze_with_workflow(workflow, chart_data) on a ready engine: the call
\* of execute_workflow.
AnalyzeWithWorkflow(t, name, data) ==
    /\ is_ready
    /\ ExecuteUnknown(t, name, data) \/ Begin(t, name, data)

\* answer_question(chart_data, question) on a ready engine:
\* execute_workflow('question_answering', {'chart': ..., 'question': ...}).
AnswerQuestion(t, data) ==
    /\ is_ready
    /\ data.is_dict
    /\ Begin(t, "question_answering", data)

\* The calls of one caller at a time on one engine.
EngineNext ==
    \/ \E kb_files \in KbFileSets(batch_source, batch) : InitializeWithKbFiles(kb_files)
    \/ RefuseNotReady
    \/ \E t \in Threads, name \in CallNames, data \in DataInputs :
          NoOtherRunning(t) /\ AnalyzeWithWorkflow(t, name, data)
    \/ \E t \in Threads, data \in DataInputs :
          NoOtherRunning(t) /\ AnswerQuestion(t, data)
    \/ \E t \in Threads : NoOtherRunning(t) /\ StepOk(t)
    \/ \E t \in Threads : NoOtherRunning(t) /\ StepRaise(t)
    \/ \E t \in Threads : NoOtherRunning(t) /\ Finish(t)

(***************************************************************************)
(*   V5 SYSTEM: VedicAstrologySystemV5.add_chart,                          *)
(*   analyze_complete_12_houses and generate_report                        *)
(***************************************************************************)

\* The chart ids callers pass, and the calls of a behaviour.
ChartIds == {"c1", "c2"}
MaxV5Calls == 4

\* The chart_data of the model: a dict with person_name and lagna_degree.
NoV5Chart == [registered |-> FALSE, person_name |-> "", lagna_degree |-> 0]
V5Charts ==
    [registered : {TRUE}, person_name : {"Asha", "Ravi"}, lagna_degree : {10, 100}]

\* AdvancedChartProcessor._generate_harmonic_chart: 'lagna_rashi' of the
\* chart of a divisor.
HarmonicLagnaRashi(a_chart, divisor) ==
    (((a_chart.lagna_degree * divisor) % 360) \div 30) + 1

\* AdvancedChartProcessor._get_house_lord(chart, house)
HouseLords ==
    <<"Sun", "Moon", "Mars", "Mercury", "Jupiter", "Venus", "Saturn", "Rahu", "Ketu">>
HouseLordOf(lagna_rashi, house) ==
    HouseLords[((((lagna_rashi - 1 + house - 1) % 12) + 1 - 1) % 9) + 1]

\* AdvancedChartProcessor.analyze_all_12_houses(chart): the owner, and
\* the lord of the first house in the D1 and the D9 chart.
NoAnalysis == [stored |-> FALSE, chart_owner |-> "", d1_lord |-> "", d9_lord |-> ""]
analyze_all_12_houses(a_chart) ==
    [stored |-> TRUE, chart_owner |-> a_chart.person_name,
     d1_lord |-> HouseLordOf(HarmonicLagnaRashi(a_chart, 1), 1),
     d9_lord |-> HouseLordOf(HarmonicLagnaRashi(a_chart, 9), 1)]

\* What the calls return: the status, the chart id, and (generate_report)
\* the title's person and the analysis the report was handed.
NoV5Return ==
    [kind |-> "none", chart_id |-> "", person |-> "", analysis |-> NoAnalysis, n |-> 0]
V5Return(kind, chart_id, person, analysis, n) ==
    [kind |-> kind, chart_id |-> chart_id, person |-> person,
     analysis |-> analysis, n |-> n]

SystemIdle ==
    /\ charts = [c \in ChartIds |-> NoV5Chart]
    /\ analyses = [c \in ChartIds |-> NoAnalysis]
    /\ v5_ret = NoV5Return

\* add_chart(chart_id, chart_data)
AddChart(chart_id, a_chart) ==
    /\ v5_ret.n < MaxV5Calls
    /\ charts' = [charts EXCEPT ![chart_id] = a_chart]
    /\ v5_ret' = V5Return("added", chart_id, "", NoAnalysis, v5_ret.n + 1)
    /\ UNCHANGED analyses

\* analyze_complete_12_houses(chart_id)
AnalyzeComplete12Houses(chart_id) ==
    /\ v5_ret.n < MaxV5Calls
    /\ IF charts[chart_id].registered
       THEN /\ analyses' = [analyses EXCEPT ![chart_id] =
                               analyze_all_12_houses(charts[chart_id])]
            /\ v5_ret' = V5Return("analyzed", chart_id, "", analyses'[chart_id],
                                  v5_ret.n + 1)
       ELSE /\ v5_ret' = V5Return("error", chart_id, "", NoAnalysis, v5_ret.n + 1)
            /\ UNCHANGED analyses
    /\ UNCHANGED charts

\* generate_report(chart_id): analysis = self.analyses.get(chart_id, {})
GenerateReport(chart_id) ==
    /\ v5_ret.n < MaxV5Calls
    /\ v5_ret' = IF charts[chart_id].registered
                 THEN V5Return("report", chart_id, charts[chart_id].person_name,
                               analyses[chart_id], v5_ret.n + 1)
                 ELSE V5Return("error", chart_id, "", NoAnalysis, v5_ret.n + 1)
    /\ UNCHANGED <<charts, analyses>>

SystemFrame ==
    UNCHANGED <<wfVars, kbVars, dashaVars, reportVars, synVars, storeVars,
                houseVars, engineVars>>

SystemNext ==
    \/ \E chart_id \in ChartIds, a_chart \in V5Charts :
          AddChart(chart_id, a_chart) /\ SystemFrame
    \/ \E chart_id \in ChartIds : AnalyzeComplete12Houses(chart_id) /\ SystemFrame
    \/ \E chart_id \in ChartIds : GenerateReport(chart_id) /\ SystemFrame

Init == WorkflowInit /\ KbIdle /\ DashaIdle /\ ReportIdle /\ SynIdle /\ StoreIdle
    /\ HouseIdle /\ EngineIdle /\ SystemIdle

Spec == Init /\ [][SeqNext]_vars
ConcSpec == Init /\ [][ConcNext]_vars

\* apply_rule on every rule and chart of the model.
RuleSpecInit == WorkflowInit /\ RuleInit /\ DashaIdle /\ ReportIdle /\ SynIdle /\ StoreIdle
    /\ HouseIdle /\ EngineIdle /\ SystemIdle
RuleSpec == RuleSpecInit /\ [][RuleNext]_vars

\* calculate_vimshottari_dasha on every nakshatra and day count of the model.
DashaSpecInit == WorkflowInit /\ KbIdle /\ DashaInit /\ ReportIdle /\ SynIdle /\ StoreIdle
    /\ HouseIdle /\ EngineIdle /\ SystemIdle
DashaSpec == DashaSpecInit /\ [][DashaNext]_vars

\* calculate_dasha on every chart, day count and birth time of the model.
ReportSpecInit == WorkflowInit /\ KbIdle /\ ReportInit /\ SynIdle /\ StoreIdle
    /\ HouseIdle /\ EngineIdle /\ SystemIdle
ReportSpec == ReportSpecInit /\ [][ReportNext]_vars

\* The compatibility of every pair of charts of the model.
SynSpecInit == WorkflowInit /\ KbIdle /\ DashaIdle /\ ReportIdle /\ SynInit /\ StoreIdle
    /\ HouseIdle /\ EngineIdle /\ SystemIdle
SynSpec == SynSpecInit /\ [][SynNext]_vars

\* Two stores of each class ingest every batch of the model, and the
\* first integrator is searched.
StoreSpecInit ==
    WorkflowInit /\ KbIdle /\ DashaIdle /\ ReportIdle /\ SynIdle /\ StoreInit
    /\ HouseIdle /\ EngineIdle /\ SystemIdle
StoreSpec == StoreSpecInit /\ [][StoreNext]_vars

\* The house derivations and detect_mangal_dosha on every ascendant, house
\* and chart of the model.
HouseSpecInit ==
    WorkflowInit /\ KbIdle /\ DashaIdle /\ ReportIdle /\ SynIdle /\ StoreIdle
    /\ HouseInit /\ EngineIdle /\ SystemIdle
HouseSpec == HouseSpecInit /\ [][HouseNext]_vars

\* One unified engine, its callers calling one after the other.
EngineSpecInit ==
    WorkflowInit /\ KbIdle /\ DashaIdle /\ ReportIdle /\ SynIdle /\ EngineInit
    /\ HouseIdle /\ SystemIdle
EngineSpec == EngineSpecInit /\ [][EngineNext]_vars

\* One V5 system and every sequence of at most MaxV5Calls calls on it.
SystemSpecInit ==
    WorkflowInit /\ KbIdle /\ DashaIdle /\ ReportIdle /\ SynIdle /\ StoreIdle
    /\ HouseIdle /\ EngineIdle /\ SystemIdle
SystemSpec == SystemSpecInit /\ [][SystemNext]_vars

(***************************************************************************)
(*                 WORKFLOW ENGINE: THE CLAIMS C1 - C6                     *)
(***************************************************************************)

\* The result map after the first n steps of a run over data all returned.
ResultsOfFirst(wf, n, data) ==
    [i \in 1..n |-> [name |-> wf[i], value |-> StepResult(wf[i], data)]]

\* What execute_workflow(name, data) returns when nothing else runs: the
\* loop of lines 154-171 unrolled from step k with the result map so far.
RECURSIVE RunFrom(_, _, _, _, _)
RunFrom(wf, name, data, k, results) ==
    IF k > Len(wf) THEN SuccessReturn(name, results)
    ELSE IF StepRaises(wf[k], k, data) THEN ErrorReturn(wf[k], results)
    ELSE RunFrom(wf, name, data, k + 1,
                 DictSet(results, wf[k], StepResult(wf[k], data)))
RunAlone(name, data) ==
    IF name \in DOMAIN RegisteredWorkflows
    THEN RunFrom(RegisteredWorkflows[name], name, data, 1, <<>>)
    ELSE NotFoundReturn(name)

Done(t) == runs[t].pc = "done"
Failed(t) == Done(t) /\ runs[t].ret.kind = "error"
Succeeded(t) == Done(t) /\ runs[t].ret.kind = "success"

\* C1: when a step of a registered workflow raises, the engine is left in
\* ERROR, the returned completed_steps are the results of exactly the steps
\* before the failing one, and the failing step is the last one invoked.
C1_FailedRunKeepsResultsAndStops ==
    \A t \in Threads :
        Failed(t) =>
            LET wf == workflows[runs[t].workflow_name]
                k == Len(runs[t].invoked)
            IN /\ k >= 1 /\ k <= Len(wf)
               /\ \A i \in 1..k : runs[t].invoked[i].step = wf[i]
               /\ StepRaises(wf[k], k, runs[t].data)
               /\ runs[t].ret.error = wf[k]
               /\ runs[t].ret.results = ResultsOfFirst(wf, k - 1, runs[t].data)
               /\ latest = t => state = ERROR

\* A run failed at a later step, so there are completed steps to retain.
C1_Witness ==
    \E t \in Threads :
        Failed(t) /\ latest = t /\ Len(runs[t].ret.results) >= 2

\* C2: the steps are invoked in their registered order, the k-th with the
\* caller's data and a result map holding exactly the results of steps
\* 1..k-1 of the same run under their step names.
C2_StepsInOrderWithAccumulatedResults ==
    \A t \in Threads :
        runs[t].pc # "idle" /\ runs[t].workflow_name \in DOMAIN workflows =>
            LET wf == workflows[runs[t].workflow_name]
            IN /\ Len(runs[t].invoked) <= Len(wf)
               /\ \A k \in 1..Len(runs[t].invoked) :
                    /\ runs[t].invoked[k].step = wf[k]
                    /\ runs[t].invoked[k].data = runs[t].data
                    /\ runs[t].invoked[k].results =
                           ResultsOfFirst(wf, k - 1, runs[t].data)

\* The third step of a run was invoked, after an earlier call on the engine.
C2_Witness ==
    \E t \in Threads :
        /\ Len(runs[t].invoked) >= 3
        /\ runs[t].invoked[3].step = "apply_rules"
        /\ calls >= 2

\* C3: the engine is in ANALYZING exactly while a run is in progress, a run
\* whose steps all return leaves it in COMPLETE and returns 'success' with
\* one result per step name, and LOADING and PREDICTING are never entered.
C3_StateMachine ==
    /\ state \in {IDLE, ANALYZING, COMPLETE, ERROR}
    /\ (state = ANALYZING) <=> (\E t \in Threads : Running(t))
    /\ (state = IDLE) => \A t \in Threads : runs[t].invoked = <<>>
    /\ \A t \in Threads :
        Succeeded(t) =>
            LET wf == workflows[runs[t].workflow_name]
            IN /\ runs[t].ret.workflow = runs[t].workflow_name
               /\ Len(runs[t].ret.results) = Len(wf)
               /\ \A i \in 1..Len(wf) : runs[t].ret.results[i].name = wf[i]
               /\ latest = t => state = COMPLETE

\* A run completed all its steps after an earlier run had failed.
C3_Witness ==
    \E t \in Threads :
        /\ Succeeded(t) /\ latest = t /\ state = COMPLETE
        /\ \E u \in Threads \ {t} : Failed(u)

\* C4: a call with an unregistered name returns the not-found error in one
\* step that leaves state, execution_log and the registry as they were.
C4_UnknownWorkflowChangesNothing ==
    [][\A t \in Threads :
          (runs'[t] # runs[t] /\ runs'[t].workflow_name \notin DOMAIN workflows) =>
              /\ runs'[t].pc = "done"
              /\ runs'[t].ret = NotFoundReturn(runs'[t].workflow_name)
              /\ state' = state
              /\ execution_log' = execution_log
              /\ workflows' = workflows]_vars

\* An unregistered name was called after a run that completed.
C4_Witness ==
    \E t \in Threads :
        /\ Done(t) /\ runs[t].ret.kind = "not_found" /\ latest = t
        /\ state = COMPLETE /\ Len(execution_log) >= 1

\* C5: two runs in progress at once have written no common variable of the
\* engine.
C5_ConcurrentRunsShareNoMutableState ==
    \A t, u \in Threads :
        (t # u /\ Running(t) /\ Running(u)) =>
            runs[t].written \cap runs[u].written = {}

\* C6: whatever the other thread's run did, a finished call has invoked its
\* steps in order and returns what the same call returns when run alone.
C6_FailureHaltsOnlyItsRun ==
    \A t \in Threads :
        Done(t) =>
            /\ runs[t].ret = RunAlone(runs[t].workflow_name, runs[t].data)
            /\ \A k \in 1..Len(runs[t].invoked) :
                   runs[t].invoked[k].step = CurrentWorkflow(t)[k]

\* A run completed all its steps although another run failed meanwhile.
C6_Witness ==
    \E t \in Threads :
        /\ Succeeded(t) /\ runs[t].saw_failure
        /\ Len(runs[t].ret.results) >= 3

(***************************************************************************)
(*                 KNOWLEDGE BASE: THE CLAIMS C7 - C9                      *)
(***************************************************************************)

\* The orders in which the same conditions can be written in a rule.
Reorderings(conds) ==
    LET n == Len(conds)
        perms == {p \in [1..n -> 1..n] : \A i, j \in 1..n : p[i] = p[j] => i = j}
    IN {[i \in 1..n |-> conds[p[i]]] : p \in perms}

\* A condition of one of the three kinds: a scalar, a list, or a dict with
\* at least one of 'min' and 'max'.
ProperCondition(c) == c.kind = "dict" => (c.has_min \/ c.has_max)

\* Whether one condition holds of a chart, by its kind.
ConditionHolds(c, chart) ==
    LET v == chart[c.key]
    IN CASE c.kind = "scalar" -> v = Num(c.value)
         [] c.kind = "list" -> \E i \in 1..Len(c.list) : v = Num(c.list[i])
         [] OTHER -> /\ IsNumeric(v)
                     /\ c.has_min => c.min <= v.n
                     /\ c.has_max => v.n <= c.max

\* C7: writing the conditions of the rule in another order gives the same
\* outcome of apply_rule on the same chart.
C7_ConditionOrderIndependence ==
    (outcome.called /\ rule.present) =>
        \A cs \in Reorderings(rule.conditions) :
            apply_rule([present |-> TRUE, conditions |-> cs], chart_data) = outcome

\* C8: when the chart lacks the field of some condition of the rule,
\* apply_rule returns that the rule does not apply and raises nothing.
C8_AbsentFieldIsNonMatch ==
    (/\ outcome.called
     /\ rule.present
     /\ \A i \in 1..Len(rule.conditions) : ProperCondition(rule.conditions[i])
     /\ \E i \in 1..Len(rule.conditions) : chart_data[rule.conditions[i].key] = None)
    => (~outcome.raised /\ ~outcome.applies)

\* The rule of the scenario: Range(moon_house, min = 1, max = 4).
MoonHouseRule ==
    [present |-> TRUE, conditions |-> <<Range("moon_house", TRUE, 1, TRUE, 4)>>]

\* C9: a rule applies exactly when every one of its conditions holds, a
\* Range holding when min <= value <= max with both ends included; the
\* moon_house rule applies at 4 and does not at 5.
C9_RangeInclusiveAndConjunction ==
    (/\ outcome.called
     /\ rule.present
     /\ \A i \in 1..Len(rule.conditions) : ProperCondition(rule.conditions[i]))
    => /\ outcome.applies <=>
            \A i \in 1..Len(rule.conditions) :
                ConditionHolds(rule.conditions[i], chart_data)
       /\ (rule = MoonHouseRule /\ chart_data["moon_house"] = Num(4))
            => (outcome.applies /\ ~outcome.raised)
       /\ (rule = MoonHouseRule /\ chart_data["moon_house"] = Num(5))
            => (~outcome.applies /\ ~outcome.raised)

\* The moon_house rule was applied to a chart whose moon_house is 4.
C9_Witness ==
    /\ outcome.called /\ outcome.applies
    /\ rule = MoonHouseRule
    /\ chart_data["moon_house"] = Num(4)

(***************************************************************************)
(*                  PREDICTION ENGINE: THE CLAIM C10                       *)
(***************************************************************************)

\* The sequence rotated to start at the seed: the index into dasha_lords of
\* its j-th segment (j from 0), and the year at which that segment starts.
RotatedIndex(seed, j) == (seed + j) % 9
RECURSIVE SegmentStart(_, _)
SegmentStart(seed, j) ==
    IF j = 0 THEN 0
    ELSE SegmentStart(seed, j - 1) + DashaYears[RotatedIndex(seed, j - 1) + 1]
SegmentEnd(seed, j) == SegmentStart(seed, j) + DashaYears[RotatedIndex(seed, j) + 1]
SegmentContains(seed, j, pos) ==
    /\ SegmentStart(seed, j) * UnitsPerYear <= pos
    /\ pos < SegmentEnd(seed, j) * UnitsPerYear

\* The offset of the query in the 120-year cycle, in units of 1/1461 year.
CyclePosition == (UnitsPerDay * days_lived) % (120 * UnitsPerYear)

\* The reported current dasha is the one segment holding the position.
CurrentIsTheSegmentAt(seed, j) ==
    /\ SegmentContains(seed, j, CyclePosition)
    /\ \A m \in 0..8 : m # j => ~SegmentContains(seed, m, CyclePosition)
    /\ dasha.current_dasha = DashaLords[RotatedIndex(seed, j) + 1]

\* C10 as stated, with "years_remaining = end - position" read to the two
\* decimals the result carries: for every seed and every offset from birth
\* on, the current dasha is the one segment of the rotated sequence that
\* holds offset mod 120, and years_remaining is end - position, more than 0
\* and at most the segment's duration.
C10_RemainingIsPositive ==
    (dasha.called /\ days_lived >= 0) =>
        /\ dasha.status = "success"
        /\ \E j \in 0..8 :
            /\ CurrentIsTheSegmentAt(moon_nakshatra % 9, j)
            /\ dasha.years_remaining =
                   Round2(SegmentEnd(moon_nakshatra % 9, j) * UnitsPerYear
                          - CyclePosition)
            /\ 0 < dasha.years_remaining
            /\ dasha.years_remaining <= 100 * DashaYears[RotatedIndex(moon_nakshatra % 9, j) + 1]

\* C10 as amended: years_remaining is end - position rounded to two
\* decimals, from 0.0 (in the last days of a segment) up to the segment's
\* duration; at seed 3 the days next to offset 37 report Jupiter with 14.0
\* remaining.
C10_RemainingIsRounded ==
    (dasha.called /\ days_lived >= 0) =>
        /\ dasha.status = "success"
        /\ dasha.position_in_cycle = Round2(CyclePosition)
        /\ \E j \in 0..8 :
            /\ CurrentIsTheSegmentAt(moon_nakshatra % 9, j)
            /\ dasha.years_remaining =
                   Round2(SegmentEnd(moon_nakshatra % 9, j) * UnitsPerYear
                          - CyclePosition)
            /\ 0 <= dasha.years_remaining
            /\ dasha.years_remaining <= 100 * DashaYears[RotatedIndex(moon_nakshatra % 9, j) + 1]
        /\ (moon_nakshatra % 9 = 3 /\ days_lived \in {13514, 13515}) =>
            (dasha.current_dasha = "Jupiter" /\ dasha.years_remaining = 1400)

\* Seed 3 (Moon) was queried 13514 days after birth, just short of 37 years.
C10_Witness ==
    /\ dasha.called /\ dasha.status = "success"
    /\ moon_nakshatra = 3 /\ days_lived = 13514
    /\ dasha.current_dasha = "Jupiter" /\ dasha.years_remaining = 1400

(***************************************************************************)
(*               PREDICTION ENGINE: THE CLAIMS C11 - C12                   *)
(***************************************************************************)

\* C11: a query made before the birth instant is answered as a query at the
\* birth instant (elapsed = 0): the current dasha is the seed's own period,
\* the first of the rotated sequence, with its full duration remaining and
\* nothing before it in dasha_sequence.
C11_QueryBeforeBirthIsElapsedZero ==
    (dasha.called /\ days_lived < 0) =>
        /\ dasha.status = "success"
        /\ dasha.current_dasha = dasha_lords(StartDasha(moon_nakshatra))
        /\ dasha.years_remaining = 100 * dasha_years(StartDasha(moon_nakshatra))
        /\ dasha.dasha_sequence = <<>>
        /\ dasha = calculate_vimshottari_dasha(moon_nakshatra, 0)

\* A timeline of iso-formatted segments anchored at `anchor`: the first
\* starts at the anchor, each ends where the next starts, and each lasts
\* its configured number of years.
TimelineContiguous(tl, anchor, periods) ==
    /\ Len(tl) = Len(periods)
    /\ tl[1].start = Iso(anchor)
    /\ \A n \in 1..(Len(tl) - 1) : tl[n].end = tl[n + 1].start
    /\ \A n \in 1..Len(tl) :
        /\ tl[n].years = periods[n].years
        /\ FromIso(tl[n].end) - FromIso(tl[n].start) = tl[n].years * UnitsPerYear

\* A dasha_sequence, in years from birth, of the rotation that starts at
\* `seed`.
SequenceContiguous(seq, seed) ==
    /\ Len(seq) > 0 => seq[1].start = 0
    /\ \A n \in 1..(Len(seq) - 1) : seq[n].end = seq[n + 1].start
    /\ \A n \in 1..Len(seq) :
        /\ seq[n].years = dasha_years(RotatedIndex(seed, n - 1))
        /\ seq[n].end - seq[n].start = seq[n].years

\* C12: every timeline of _generate_dasha_timeline and every dasha_sequence
\* of calculate_vimshottari_dasha is contiguous: the first segment starts
\* at the anchor, the end of segment n is the start of segment n+1, and the
\* end minus the start of a segment is its configured duration.
C12_TimelinesAreContiguous ==
    /\ timeline # <<>> =>
           TimelineContiguous(timeline, birth_date, vimshottari_periods)
    /\ (dasha.called /\ dasha.status = "success") =>
           SequenceContiguous(dasha.dasha_sequence, StartDasha(moon_nakshatra))

\* A birth at 18:00 produced the nine-segment timeline, and a query in the
\* fourth period of the rotation produced a dasha_sequence of three.
C12_Witness ==
    /\ birth_date = 3 /\ Len(timeline) = 9
    /\ timeline[1].end = timeline[2].start
    /\ dasha.called /\ Len(dasha.dasha_sequence) = 3

(***************************************************************************)
(*        PREDICTION ENGINE (b0e7685b): THE CLAIMS C19 - C20               *)
(***************************************************************************)

\* The index of a planet in the ordered periods, and the cumulative end, in
\* units of 1/1461 year, of the segment at an index.
PeriodIndex(periods, planet) ==
    CHOOSE i \in 1..Len(periods) : periods[i].planet = planet
CumulativeEnd(periods, i) == SumDays(periods, i)

\* C19: calculate_dasha starts the sequence at the chart's seed, its
\* moon_nakshatra_lord: a query inside the first period after birth, that
\* is less than the seed's own duration after birth, reports the seed lord
\* as the active dasha.
C19_SequenceStartsAtSeed ==
    (/\ dasha_report.called
     /\ dasha_chart.moon_nakshatra_lord # NoLord
     /\ days_lived >= 0
     /\ UnitsPerDay * days_lived
            < PeriodsGet(vimshottari_periods, dasha_chart.moon_nakshatra_lord, 0)
              * UnitsPerYear)
    => dasha_report.active_dasha = dasha_chart.moon_nakshatra_lord

\* C20: for every days_lived >= 0, years_remaining is the cumulative end of
\* the segment that _get_active_dasha selects minus days_lived modulo the
\* 120-year cycle, and lies between 0 and that segment's length.
C20_RemainingIsEndMinusPosition ==
    (dasha_report.called /\ days_lived >= 0) =>
        LET i == PeriodIndex(vimshottari_periods, dasha_report.active_dasha)
            position == (UnitsPerDay * days_lived) % (120 * UnitsPerYear)
        IN /\ dasha_report.years_remaining
                  = CumulativeEnd(vimshottari_periods, i) - position
           /\ 0 <= dasha_report.years_remaining
           /\ dasha_report.years_remaining
                  <= vimshottari_periods[i].years * UnitsPerYear

(***************************************************************************)
(*                   SYNASTRY: THE CLAIMS C13 - C15                        *)
(***************************************************************************)

\* The eight factor scores of a CompatibilityResult, in the order varna,
\* vashya, tara, yoni, graha maitri, gana, bhakuta, nadi.
FactorScores(r) ==
    <<r.varna_score, r.vashya_score, r.tara_score, r.yoni_score,
      r.graha_maitri_score, r.gana_score, r.bhakuta_score, r.nadi_score>>
RECURSIVE Total(_, _)
Total(scores, n) == IF n = 0 THEN 0 ELSE scores[n] + Total(scores, n - 1)

\* C13: for every pair of charts the result's total_guna_score is the sum
\* of its eight factor scores and is at most 36.
C13_TotalIsSumAtMost36 ==
    compat.called =>
        /\ compat.total_guna_score = Total(FactorScores(compat), 8)
        /\ compat.total_guna_score <= 36

\* Two charts with moon in sign 1 and nakshatras of different nadis reach
\* the largest total the code can give, 1 + 2 + 3 + 2 + 0 + 6 + 7 + 8.
C13_Witness ==
    /\ compat.called
    /\ chart_a.moon_sign = 1 /\ chart_b.moon_sign = 1
    /\ chart_a.moon_nakshatra = "Ashwini" /\ chart_b.moon_nakshatra = "Bharani"
    /\ compat.total_guna_score = 29

\* The fixed table of maxima of the eight factors.
MaxPoints == <<1, 2, 3, 4, 5, 6, 7, 8>>

\* C14: for every pair of charts each of the eight factor functions, and
\* each of the manager's _check_* functions, gives points from 0 to the
\* factor's maximum, the maxima being 1, 2, 3, 4, 5, 6, 7, 8.
C14_FactorPointsWithinMaximum ==
    /\ compat.called =>
        \A i \in 1..8 :
            0 <= FactorScores(compat)[i] /\ FactorScores(compat)[i] <= MaxPoints[i]
    /\ kuta_checks # NotChecked =>
        \A i \in 1..8 :
            /\ kuta_checks[i].max = MaxPoints[i]
            /\ 0 <= kuta_checks[i].points
            /\ kuta_checks[i].points <= kuta_checks[i].max

\* Both sets of functions ran on a pair that takes the varna, gana, bhakuta
\* and nadi factors to their maxima.
C14_Witness ==
    /\ compat.called /\ kuta_checks # NotChecked
    /\ compat.varna_score = 1 /\ compat.gana_score = 6
    /\ compat.bhakuta_score = 7 /\ compat.nadi_score = 8

\* The nadi class of a chart's moon nakshatra, NoneValue when it has none.
NadiOf(c) == get_nadi_from_nakshatra(OrEmpty(c.moon_nakshatra))

AllContain(results, keyword) ==
    \A i \in 1..Len(results) : Contains(StrOf(results[i]), Lower(keyword))
InOrderOf(results, values) ==
    \E f \in [1..Len(results) -> 1..Len(values)] :
        /\ \A i \in 1..Len(results) : results[i] = values[f[i]]
        /\ \A i \in 1..(Len(results) - 1) : f[i] < f[i + 1]

\* C17: for every limit >= 0, search_rules returns only rules whose
\* serialized content holds the keyword whatever the case, in insertion
\* order, and never more rules than the limit.
C17_SearchIsCappedAtLimit ==
    found.called =>
        /\ AllContain(found.results, found.keyword)
        /\ InOrderOf(found.results, DictValues(kbi[1].formula_cache))
        /\ Len(found.results) <= found.limit

\* A record that ingestion can index: a dict whose category and id can be
\* dict keys.
WellFormed(record) ==
    record.is_dict /\ record.category # Unhashable /\ record.id # Unhashable
NumWellFormed == Cardinality({i \in 1..Len(batch) : WellFormed(batch[i])})
IndexedIn(index, record) ==
    \E c \in 1..Len(index) :
        /\ index[c].name = CategoryOf(record)
        /\ \E j \in 1..Len(index[c].value) :
               [index[c].value[j] EXCEPT !.source = Absent] = record

\* C18: a bad record of a batch is skipped without aborting the batch:
\* every well-formed record of the batch, before or after it, is indexed,
\* and the count the ingestion reports is the number of those records.
C18_BadRecordIsSkipped ==
    \A k \in Stores :
        /\ kb[k].loaded =>
            /\ \A i \in 1..Len(batch) :
                   WellFormed(batch[i]) => IndexedIn(kb[k].rules, batch[i])
            /\ kb[k].returned = NumWellFormed
        /\ kbi[k].loaded =>
            /\ \A i \in 1..Len(batch) :
                   WellFormed(batch[i]) => IndexedIn(kbi[k].rule_index, batch[i])
            /\ kbi[k].stats.total_rules = NumWellFormed

(***************************************************************************)
(*                  PREDICTION ENGINE: THE CLAIM C21                       *)
(***************************************************************************)

\* The index in dasha_lords of a lord's name.
LordIndex(name) == (CHOOSE i \in 1..Len(DashaLords) : DashaLords[i] = name) - 1

\* C21: for every seed and every position in the cycle, upcoming_dashas is
\* the four periods that follow the current dasha in the cyclic sequence,
\* in order; the first starts in years_remaining and each later one starts
\* when its predecessor ends.
C21_UpcomingFollowTheCurrentDasha ==
    (dasha.called /\ dasha.status = "success" /\ days_lived >= 0) =>
        LET current == LordIndex(dasha.current_dasha)
            upcoming == dasha.upcoming_dashas
        IN /\ Len(upcoming) = 4
           /\ \A i \in 1..4 :
                /\ upcoming[i].dasha = dasha_lords((current + i) % 9)
                /\ upcoming[i].years = dasha_years((current + i) % 9)
           /\ Round2(upcoming[1].starts_in_years) = dasha.years_remaining
           /\ \A i \in 1..3 :
                upcoming[i + 1].starts_in_years
                    = upcoming[i].starts_in_years + upcoming[i].years * UnitsPerYear

(***************************************************************************)
(*                   SYNASTRY: THE CLAIMS C22 - C23                        *)
(***************************************************************************)

\* The distance from the first moon sign to the second, counted round the
\* zodiac.
SignDistance(sign_a, sign_b) == (sign_b - sign_a) % 12

\* C22: the bhakuta points depend only on the sign distance between the two
\* moon signs: every pair of moon signs at the same distance as the charts'
\* own receives the same points, 0 or 7.
C22_BhakutaDependsOnDistanceOnly ==
    (compat.called /\ chart_a.moon_sign \in 1..12 /\ chart_b.moon_sign \in 1..12) =>
        /\ compat.bhakuta_score \in {0, 7}
        /\ \A x \in 1..12, y \in 1..12 :
            SignDistance(x, y) = SignDistance(chart_a.moon_sign, chart_b.moon_sign)
            => calculate_bhakuta_kuta([chart_a EXCEPT !.moon_sign = x],
                                      [chart_b EXCEPT !.moon_sign = y])
               = compat.bhakuta_score

\* Whether the rulers of the two charts' moon signs are friends, or
\* enemies, in the friendship table (in either direction).
RulersAreFriends(a, b) ==
    LET ra == get_sign_lord(a.moon_sign)
        rb == get_sign_lord(b.moon_sign)
    IN /\ ra \in DOMAIN PLANET_FRIENDSHIP /\ rb \in DOMAIN PLANET_FRIENDSHIP
       /\ rb \in PLANET_FRIENDSHIP[ra] /\ ra \in PLANET_FRIENDSHIP[rb]
RulersAreEnemies(a, b) ==
    LET ra == get_sign_lord(a.moon_sign)
        rb == get_sign_lord(b.moon_sign)
    IN /\ ra \in DOMAIN PLANET_ENEMIES /\ rb \in DOMAIN PLANET_ENEMIES
       /\ rb \in PLANET_ENEMIES[ra] /\ ra \in PLANET_ENEMIES[rb]

\* C23: two charts whose moon-sign rulers are friends in the friendship
\* table score more graha maitri points than any two charts whose
\* moon-sign rulers are enemies.
C23_FriendlyRulersScoreMore ==
    (compat.called /\ RulersAreFriends(chart_a, chart_b)) =>
        \A c \in SynCharts, d \in SynCharts :
            RulersAreEnemies(c, d) =>
                compat.graha_maitri_score > calculate_graha_maitri(c, d)


(***************************************************************************)
(*                   HOUSES: THE CLAIMS C24 - C25                          *)
(***************************************************************************)

\* C24: detect_mangal_dosha on a chart dict, mars_house being the Mars
\* house the function read (chart_data.get('mars_house', 1), which it
\* hands back as 'mars_house'): has_mangal_dosha is true exactly when
\* mars_house is in {1, 4, 7, 8, 12}; the severity is 5 for the houses 7
\* and 8, 3 for 1, 4 and 12, and 0 otherwise; the severity is greater than
\* 0, and the remedy list non-empty, exactly when the dosha is present.
C24_MangalDoshaExactlyInAfflictedHouses ==
    (mangal.called /\ mars_chart.is_dict) =>
        /\ mangal.status = "success"
        /\ mangal.mars_house = MarsHouseOf(mars_chart)
        /\ mangal.has_mangal_dosha <=> mangal.mars_house \in {1, 4, 7, 8, 12}
        /\ mangal.severity = (IF mangal.mars_house \in {7, 8} THEN 5
                              ELSE IF mangal.mars_house \in {1, 4, 12} THEN 3
                              ELSE 0)
        /\ mangal.severity > 0 <=> mangal.has_mangal_dosha
        /\ Len(mangal.remedies) > 0 <=> mangal.has_mangal_dosha

\* A chart with Mars in the first house has been judged.
C24_Witness ==
    /\ mangal.called /\ mars_chart.is_dict
    /\ mars_chart.has_mars_house /\ mars_chart.mars_house = 1
    /\ mangal.has_mangal_dosha /\ mangal.severity = 3

\* C25: for every ascendant a and house h in 1..12 the sign s that
\* get_house_cusp_sign(a, h) returns is in 1..12 with ((s - a) mod 12) + 1
\* = h, and for the fixed ascendant no other house has that sign (the map
\* from the twelve houses to the twelve signs is a bijection); the other
\* two derivations, _get_house_lord and _is_planet_in_house, give the same
\* sign for the house and the same house for the sign.
C25_HouseAndSignAreMutuallyDerivable ==
    cusp.called =>
        /\ cusp.sign \in 1..12
        /\ ((cusp.sign - asc_sign) % 12) + 1 = house_num
        /\ \A h \in (1..12) \ {house_num} :
              get_house_cusp_sign(asc_sign, h) # cusp.sign
        /\ {get_house_cusp_sign(asc_sign, h) : h \in 1..12} = 1..12
        /\ cusp.house_sign = cusp.sign
        /\ cusp.houses_of_sign = {house_num}

\* The sign of a house was derived where the count wraps round the zodiac.
C25_Witness ==
    /\ cusp.called
    /\ asc_sign = 11 /\ house_num = 4 /\ cusp.sign = 2


(***************************************************************************)
(*                     INGESTION: THE CLAIM C26                            *)
(***************************************************************************)

\* The number of rules a category index lists.
RECURSIVE NumListed(_, _)
NumListed(by_category, i) ==
    IF i > Len(by_category) THEN 0
    ELSE Len(by_category[i].value) + NumListed(by_category, i + 1)

\* Every rule the category index lists is a value of the id index, and the
\* id index has as many ids as the category index has rules.
EveryRuleHasItsOwnId(by_category, by_id) ==
    /\ \A i \in 1..Len(by_category) : \A j \in 1..Len(by_category[i].value) :
          \E e \in 1..Len(by_id) : by_id[e].value = by_category[i].value[j]
    /\ Len(by_id) = NumListed(by_category, 1)

\* C26: after a load that did not raise, every rule of the category index
\* of a store is in its id index under an id of its own, and
\* total_formulas equals total_rules.
C26_NoRuleIsLostFromTheIdIndex ==
    \A k \in Stores :
        /\ (kb[k].loaded /\ ~kb[k].raised) =>
              /\ EveryRuleHasItsOwnId(kb[k].rules, kb[k].formulas)
              /\ kb[k].total_formulas = kb[k].total_rules
        /\ (kbi[k].loaded /\ kbi[k].stats.files_loaded = 1) =>
              /\ EveryRuleHasItsOwnId(kbi[k].rule_index, kbi[k].formula_cache)
              /\ kbi[k].total_formulas = kbi[k].total_rules


(***************************************************************************)
(*                   UNIFIED ENGINE: THE CLAIM C27                         *)
(***************************************************************************)

\* A step method of a workflow has been called (it returned or it raised).
SomeStepExecuted ==
    \/ execution_log # <<>>
    \/ \E t \in Threads : runs[t].invoked # <<>>

\* C27: while the engine has not been initialized a call of
\* analyze_with_workflow or answer_question returns the error and the
\* workflow engine stays IDLE with an empty execution log; and whenever a
\* workflow step has been executed at least one knowledge-base file has
\* been loaded successfully.
C27_WorkflowsRunOnlyOnceFilesAreLoaded ==
    /\ ~is_ready =>
          /\ engine_ret.kind \in {"none", "error"}
          /\ state = IDLE /\ execution_log = <<>> /\ calls = 0
    /\ SomeStepExecuted => kbi[1].total_files >= 1


(***************************************************************************)
(*                  WORKFLOW ENGINE: THE CLAIM C28                         *)
(***************************************************************************)

\* In this step the method of the current step of the call of t returned:
\* the step completed.
StepCompletes(t) ==
    /\ runs[t].pc = "running" /\ runs'[t].pc = "running"
    /\ runs'[t].step = runs[t].step + 1

\* C28: execution_log is append-only and exact.  A step of the calls made
\* one after the other appends one 'success' entry, naming the workflow of
\* the call and the step, exactly when a step method completes; every
\* other step (a step method that raises, the end of a call, a call with
\* an unregistered name, the entry of a call) leaves the log as it is.  So
\* the log is the concatenation, in call order, of the completed steps.
C28_ExecutionLogIsAppendOnlyAndExact ==
    [][ /\ \A t \in Threads :
              StepCompletes(t) =>
                  execution_log' =
                      Append(execution_log,
                             [workflow |-> runs[t].workflow_name,
                              step |-> Lookup(workflows, runs[t].workflow_name)[runs[t].step],
                              status |-> "success"])
        /\ (\A t \in Threads : ~StepCompletes(t)) => execution_log' = execution_log
      ]_vars

\* The log of two calls: the first ran all its steps, the second raised
\* after one completed step.
C28_Witness ==
    /\ calls = 2
    /\ \E t \in Threads :
          /\ runs[t].pc = "done" /\ runs[t].ret.kind = "error" /\ latest = t
          /\ Len(runs[t].ret.results) = 1
          /\ Len(execution_log) = MaxSteps + 1
          /\ execution_log[MaxSteps + 1].workflow = runs[t].workflow_name


(***************************************************************************)
(*                    V5 SYSTEM: THE CLAIM C29                             *)
(***************************************************************************)

\* C29: every stored analysis belongs to a registered chart id and is the
\* analysis of the chart data now registered under that id; a call that
\* returned the error named a chart id that is not registered.
C29_AnalysesBelongToTheRegisteredCharts ==
    /\ \A c \in ChartIds :
          analyses[c].stored =>
              /\ charts[c].registered
              /\ analyses[c] = analyze_all_12_houses(charts[c])
    /\ v5_ret.kind = "error" => ~charts[v5_ret.chart_id].registered


(***************************************************************************)
(*                 PREDICTION ENGINE: THE CLAIM C30                        *)
(***************************************************************************)

\* The lord of each nakshatra, 1 = Ashwini ... 27 = Revati, as the
\* Nakshatra enum and _nakshatra_interpretations both give it.
NakshatraLords ==
    <<"Ketu", "Venus", "Sun", "Moon", "Mars", "Rahu", "Jupiter", "Saturn", "Mercury",
      "Ketu", "Venus", "Sun", "Moon", "Mars", "Rahu", "Jupiter", "Saturn", "Mercury",
      "Ketu", "Venus", "Sun", "Moon", "Mars", "Rahu", "Jupiter", "Saturn", "Mercury">>

\* C30: the first dasha of the sequence, dasha_lords[n % 9], which is the
\* current dasha of a birth on the day of the query, is the lord the
\* nakshatra tables give for the moon nakshatra n.
C30_SeedIsTheLordOfTheNakshatra ==
    (dasha.called /\ dasha.status = "success" /\ days_lived = 0
        /\ moon_nakshatra \in 1..Len(NakshatraLords)) =>
        /\ dasha.current_dasha = dasha_lords(StartDasha(moon_nakshatra))
        /\ dasha.current_dasha = NakshatraLords[moon_nakshatra]

=============================================================================
